---------------------------- MODULE Spec2Model ----------------------------
(***************************************************************************)
(* A model of dusk-network/wallet-core: note selection (utils::inputs,     *)
(* pick_notes, pick_lexicographic), the Wallet's inputs_and_change_output  *)
(* and unspent_notes, the spent/unspent partition, ffi::execute and the    *)
(* assembly of an UnprovenTransaction.                                     *)
(*                                                                         *)
(* The library is a synchronous request/response core without state of its *)
(* own: `call` is the request in flight (the arguments and, for the Wallet *)
(* methods, the contents of the state client), `op` names the operation    *)
(* that has run on it and `ret` is what that operation returned.           *)
(***************************************************************************)
EXTENDS Integers, Sequences, FiniteSets, TLC

VARIABLES call, op, ret

vars == <<call, op, ret>>

(***************************************************************************)
(* Option<T> and Result<T, E>.                                             *)
(***************************************************************************)
None == [some |-> FALSE]

Some(x) == [some |-> TRUE, val |-> x]

Ok(x) == [ok |-> TRUE, val |-> x]

Err(e) == [ok |-> FALSE, err |-> e]

(***************************************************************************)
(* Program constants.                                                      *)
(***************************************************************************)
MAX_INPUT_NOTES == 4

MAX_KEY == 24

(***************************************************************************)
(* Bounds of the model.                                                    *)
(***************************************************************************)
MaxPool == 6

MaxTarget == 13

NoteValues == {0, 1, 3}

(***************************************************************************)
(* Helpers on sequences.                                                   *)
(***************************************************************************)
RECURSIVE SumSeq(_)
SumSeq(s) == IF s = <<>> THEN 0 ELSE Head(s) + SumSeq(Tail(s))

Range(s) == {s[i] : i \in DOMAIN s}

Values(nodes) == [i \in DOMAIN nodes |-> nodes[i].value]

\* The nodes a caller builds from a list of values: node i carries note i
\* (the note is its identity; the opening and blinder travel with it).
GenNotes(values) == [i \in DOMAIN values |-> [note |-> i, value |-> values[i]]]

(***************************************************************************)
(* notes_and_values.sort_by(|a, b| a.value.cmp(b.value)): a stable sort,   *)
(* ascending by value; nodes of equal value keep their relative order.     *)
(***************************************************************************)
RECURSIVE InsertByValue(_, _)
InsertByValue(sorted, n) ==
    IF sorted = <<>> THEN <<n>>
    ELSE IF sorted[Len(sorted)].value <= n.value THEN Append(sorted, n)
    ELSE Append(InsertByValue(SubSeq(sorted, 1, Len(sorted) - 1), n),
                sorted[Len(sorted)])

\* Mutant: the comparison turned round (bval.cmp(aval)), a descending sort.
RECURSIVE InsertByValueDesc(_, _)
InsertByValueDesc(sorted, n) ==
    IF sorted = <<>> THEN <<n>>
    ELSE IF sorted[Len(sorted)].value >= n.value THEN Append(sorted, n)
    ELSE Append(InsertByValueDesc(SubSeq(sorted, 1, Len(sorted) - 1), n),
                sorted[Len(sorted)])

RECURSIVE SortByValueDesc(_)
SortByValueDesc(nodes) ==
    IF nodes = <<>> THEN <<>>
    ELSE InsertByValueDesc(SortByValueDesc(SubSeq(nodes, 1, Len(nodes) - 1)),
                           nodes[Len(nodes)])

RECURSIVE SortByValue(_)
SortByValue(nodes) ==
    IF nodes = <<>> THEN <<>>
    ELSE InsertByValue(SortByValue(SubSeq(nodes, 1, Len(nodes) - 1)),
                       nodes[Len(nodes)])

(***************************************************************************)
(* pick_lexicographic.  `indices` is the array [usize; MAX_INPUT_NOTES],   *)
(* a function on 0..3 holding 0-based positions.                           *)
(***************************************************************************)
InitialIndices == [i \in 0..(MAX_INPUT_NOTES - 1) |-> i]

\* let mut i = MAX_INPUT_NOTES - 1;
\* while indices[i] == i + max_len - MAX_INPUT_NOTES { if i > 0 {i -= 1} else {break} }
RECURSIVE ScanBack(_, _, _)
ScanBack(indices, i, max_len) ==
    IF indices[i] = i + max_len - MAX_INPUT_NOTES /\ i > 0
    THEN ScanBack(indices, i - 1, max_len)
    ELSE i

\* Mutant: indices[i] += 1 without the reset of the indices after i.
Advance_without_reset(indices, i) ==
    [j \in 0..(MAX_INPUT_NOTES - 1) |->
        IF j = i THEN indices[j] + 1 ELSE indices[j]]

\* indices[i] += 1; for j in i + 1..MAX_INPUT_NOTES { indices[j] = indices[j - 1] + 1; }
Advance(indices, i) ==
    [j \in 0..(MAX_INPUT_NOTES - 1) |->
        IF j < i THEN indices[j] ELSE indices[i] + 1 + (j - i)]

NextIndices(indices, max_len) ==
    Advance(indices, ScanBack(indices, MAX_INPUT_NOTES - 1, max_len))

\* The loop of pick_lexicographic; is_valid is the closure, a function of
\* the index array.
RECURSIVE pick_loop(_, _, _)
pick_loop(indices, max_len, is_valid) ==
    IF is_valid[indices] THEN Some(indices)
    ELSE LET next == NextIndices(indices, max_len)
         IN  IF next[MAX_INPUT_NOTES - 1] = max_len THEN None
             ELSE pick_loop(next, max_len, is_valid)

pick_lexicographic(max_len, is_valid) ==
    pick_loop(InitialIndices, max_len, is_valid)

IndexArrays(max_len) == [0..(MAX_INPUT_NOTES - 1) -> 0..(max_len - 1)]

(***************************************************************************)
(* pick_notes (utils.rs; imp.rs holds the same function on triples).       *)
(* The sum of the four values is taken without wrap-around here: the       *)
(* model's values are far below 2^64.                                      *)
(***************************************************************************)
IndexSum(sorted, indices) ==
    SumSeq([k \in 1..MAX_INPUT_NOTES |-> sorted[indices[k - 1] + 1].value])

\* Mutant: `>` for `>=` in the predicate handed to pick_lexicographic.
pick_notes_strict(value, notes_and_values) ==
    IF Len(notes_and_values) <= MAX_INPUT_NOTES THEN notes_and_values
    ELSE LET sorted == SortByValue(notes_and_values)
             found  == pick_lexicographic(Len(sorted),
                           [indices \in IndexArrays(Len(sorted)) |->
                               IndexSum(sorted, indices) > value])
         IN  IF found.some
             THEN [k \in 1..MAX_INPUT_NOTES |-> sorted[found.val[k - 1] + 1]]
             ELSE <<>>

\* Mutant: the early return taken for one note too many.
pick_notes_off_by_one(value, notes_and_values) ==
    IF Len(notes_and_values) <= MAX_INPUT_NOTES + 1 THEN notes_and_values
    ELSE LET sorted == SortByValue(notes_and_values)
             found  == pick_lexicographic(Len(sorted),
                           [indices \in IndexArrays(Len(sorted)) |->
                               IndexSum(sorted, indices) >= value])
         IN  IF found.some
             THEN [k \in 1..MAX_INPUT_NOTES |-> sorted[found.val[k - 1] + 1]]
             ELSE <<>>

\* Mutant: the sort left out, the search run over the pool as given.
pick_notes_unsorted(value, notes_and_values) ==
    IF Len(notes_and_values) <= MAX_INPUT_NOTES THEN notes_and_values
    ELSE LET sorted == notes_and_values
             found  == pick_lexicographic(Len(sorted),
                           [indices \in IndexArrays(Len(sorted)) |->
                               IndexSum(sorted, indices) >= value])
         IN  IF found.some
             THEN [k \in 1..MAX_INPUT_NOTES |-> sorted[found.val[k - 1] + 1]]
             ELSE <<>>

\* Mutant: the sort done before the early return.
pick_notes_sort_first(value, notes_and_values) ==
    LET sorted == SortByValue(notes_and_values)
    IN  IF Len(sorted) <= MAX_INPUT_NOTES THEN sorted
        ELSE LET found == pick_lexicographic(Len(sorted),
                              [indices \in IndexArrays(Len(sorted)) |->
                               IndexSum(sorted, indices) >= value])
             IN  IF found.some
                 THEN [k \in 1..MAX_INPUT_NOTES |-> sorted[found.val[k - 1] + 1]]
                 ELSE <<>>

pick_notes(value, notes_and_values) ==
    IF Len(notes_and_values) <= MAX_INPUT_NOTES THEN notes_and_values
    ELSE LET sorted == SortByValue(notes_and_values)
             found  == pick_lexicographic(Len(sorted),
                           [indices \in IndexArrays(Len(sorted)) |->
                               IndexSum(sorted, indices) >= value])
         IN  IF found.some
             THEN [k \in 1..MAX_INPUT_NOTES |-> sorted[found.val[k - 1] + 1]]
             ELSE <<>>

(***************************************************************************)
(* utils::inputs.  The while loop adds node values from the front until    *)
(* the running sum reaches target_sum or the nodes are used up.            *)
(***************************************************************************)
RECURSIVE AccumulateUntil(_, _, _, _)
AccumulateUntil(nodes, target_sum, i, sum) ==
    IF sum < target_sum /\ i <= Len(nodes)
    THEN AccumulateUntil(nodes, target_sum, i + 1, sum + nodes[i].value)
    ELSE sum

inputs(nodes, target_sum) ==
    IF nodes = <<>> THEN None
    ELSE IF AccumulateUntil(nodes, target_sum, 1, 0) < target_sum THEN None
    ELSE Some(pick_notes(target_sum, nodes))

(***************************************************************************)
(* The selection specification: a pool and a target are drawn, then        *)
(* pick_notes or utils::inputs is applied to them.                         *)
(***************************************************************************)
ValueLists == UNION {[1..n -> NoteValues] : n \in 0..MaxPool}

\* The pools and targets of the repository's own tests.
TestCases ==
    { <<<<2, 1, 4, 3, 5, 7, 6>>, 100>>, <<<<2, 1, 4, 3, 5, 7, 6>>, 20>>,
      <<<<1>>, 1>>, <<<<1, 2>>, 2>>, <<<<1, 3, 2>>, 2>>, <<<<4, 2, 1, 3>>, 2>>,
      <<<<>>, 70>>, <<<<100>>, 70>>, <<<<100>>, 101>>,
      <<<<100, 500, 300>>, 600>>, <<<<100, 500, 300>>, 901>> }

SelectCall(values, target) == [nodes |-> GenNotes(values), target |-> target]

InitSelect ==
    /\ \/ \E vs \in ValueLists, t \in 0..MaxTarget : call = SelectCall(vs, t)
       \/ \E c \in TestCases : call = SelectCall(c[1], c[2])
    /\ op = "none"
    /\ ret = None

PickNotes ==
    /\ op = "none"
    /\ op' = "pick_notes"
    /\ ret' = pick_notes(call.target, call.nodes)
    /\ UNCHANGED call

Inputs ==
    /\ op = "none"
    /\ op' = "inputs"
    /\ ret' = inputs(call.nodes, call.target)
    /\ UNCHANGED call

NextSelect == PickNotes \/ Inputs

SpecSelect == InitSelect /\ [][NextSelect]_vars

(***************************************************************************)
(* Keys, notes and nullifiers.  A secret (spend) key is drawn from a       *)
(* generator seeded by the hash of the seed, the index and a tag; the view *)
(* key and the public key are functions of the secret key.  A note is [note, value, owner]: `note` is *)
(* its position in the tree (its identity), `owner` the secret key whose   *)
(* public key it was created for.  Hashes and ciphers are ideal: a         *)
(* nullifier names the note and key it comes from, a value decrypts under  *)
(* the owner's view key only.                                              *)
(***************************************************************************)
\* The k low bytes of n, lowest first.
RECURSIVE le_bytes(_, _)
le_bytes(n, k) ==
    IF k = 0 THEN <<>> ELSE <<n % 256>> \o le_bytes(n \div 256, k - 1)

\* Mutant: the bytes of the index without its high zero bytes.
RECURSIVE to_le_bytes_trimmed(_)
to_le_bytes_trimmed(index) ==
    IF index = 0 THEN <<>>
    ELSE <<index % 256>> \o to_le_bytes_trimmed(index \div 256)

\* u64::to_le_bytes
to_le_bytes(index) == le_bytes(index, 8)

\* b"SSK" and b"SK"
TagSSK == <<83, 83, 75>>

TagSK == <<83, 75>>

\* The bytes given to the hasher: the seed, an array of RNG_SEED bytes,
\* is one block.
hashed_bytes(seed, index, termination) ==
    <<seed>> \o to_le_bytes(index) \o termination

Sha256(bytes) == [sha256 |-> bytes]

rng_with_index(seed, index, termination) ==
    [chacha12 |-> Sha256(hashed_bytes(seed, index, termination))]

\* SecretSpendKey::random and StakeSecretKey::random: the key is a
\* function of the state of the generator.
SecretKeyRandom(rng) == [ssk_random |-> rng]

StakeSecretKeyRandom(rng) == [stake_sk_random |-> rng]

derive_stake_sk(seed, index) ==
    StakeSecretKeyRandom(rng_with_index(seed, index, TagSK))

derive_sk(seed, index) == SecretKeyRandom(rng_with_index(seed, index, TagSSK))

\* key::derive_ssk, the name by which ffi.rs and compat/crypto.rs call
\* derive_sk.
derive_ssk(seed, index) == derive_sk(seed, index)

view_key(ssk) == [vk_of |-> ssk]

public_spend_key(ssk) == [psk_of |-> ssk]

gen_nullifier(note, ssk) == [nullifier_of |-> note.note, key |-> ssk]

\* A note is obfuscated unless it says it is transparent.
IsTransparent(note) ==
    "type" \in DOMAIN note /\ note.type = "NoteType::Transparent"

\* note.value(Some(&vk)) and note.blinding_factor(Some(&vk)): value and
\* blinder of a transparent note are in the clear, those of an obfuscated
\* note decrypt under the view key of its owner.
note_value(note, vk) ==
    IF IsTransparent(note) \/ vk = view_key(note.owner)
    THEN Ok(note.value) ELSE Err("Phoenix")

blinding_factor(note, vk) ==
    IF IsTransparent(note) \/ vk = view_key(note.owner)
    THEN Ok([blinder_of |-> note.note]) ELSE Err("Phoenix")

\* ViewKey::owns: the stealth address of the note was made for the key.
owns(vk, note) == vk = view_key(note.owner)

derive_pk(seed, index) == public_spend_key(derive_sk(seed, index))

derive_vk(seed, index) == view_key(derive_sk(seed, index))

\* One draw from a random number generator in state rng; the generator
\* is then in state rng + 1.
Random(rng) == [random |-> rng]

\* Note::deterministic(type, r, nonce, psk, value, blinder)
NoteDeterministic(type, r, nonce, psk, value, blinder) ==
    [type |-> type, r |-> r, nonce |-> nonce, receiver |-> psk,
     value |-> value, blinder |-> blinder]

(***************************************************************************)
(* Wallet::unspent_notes.  `state` is the state client: the notes it holds *)
(* for the view key, the nullifiers that exist on chain, and whether each  *)
(* of its two requests succeeds.                                           *)
(***************************************************************************)
fetch_existing_nullifiers(state, nullifiers) ==
    IF state.nullifiers_ok
    THEN Ok({n \in Range(nullifiers) : n \in state.existing_nullifiers})
    ELSE Err("State")

MapFirst(pairs) == [i \in DOMAIN pairs |-> pairs[i][1]]

unspent_notes(state, ssk) ==
    IF ~state.notes_ok THEN Err("State")
    ELSE LET notes == state.notes
             nullifiers == [i \in DOMAIN notes |-> gen_nullifier(notes[i], ssk)]
             existing_nullifiers == fetch_existing_nullifiers(state, nullifiers)
         IN  IF ~existing_nullifiers.ok THEN existing_nullifiers
             ELSE Ok(MapFirst(SelectSeq(
                      [i \in DOMAIN notes |-> <<notes[i], nullifiers[i]>>],
                      LAMBDA pair : pair[2] \notin existing_nullifiers.val)))

(***************************************************************************)
(* generate_obfuscated_note and Wallet::inputs_and_change_output.          *)
(***************************************************************************)
generate_obfuscated_note(rng, psk, value, nonce) ==
    LET r == Random(rng)
        blinder == Random(rng + 1)
    IN  [note |-> NoteDeterministic("Obfuscated", r, nonce, psk, value, blinder),
         blinder |-> blinder,
         rng |-> rng + 2]

\* Mutant: `change >= 0` for `change > 0`, a change note of value 0.
change_outputs_always(rng, refund, change) ==
    IF change >= 0
    THEN LET nonce == Random(rng)
             gen == generate_obfuscated_note(rng + 1, refund, change, nonce)
         IN  [outputs |-> <<[note |-> gen.note, value |-> change, blinder |-> gen.blinder]>>,
              rng |-> gen.rng]
    ELSE [outputs |-> <<>>, rng |-> rng]

\* The change output of inputs_and_change_output: none when change = 0.
change_outputs(rng, refund, change) ==
    IF change > 0
    THEN LET nonce == Random(rng)
             gen == generate_obfuscated_note(rng + 1, refund, change, nonce)
         IN  [outputs |-> <<[note |-> gen.note, value |-> change, blinder |-> gen.blinder]>>,
              rng |-> gen.rng]
    ELSE [outputs |-> <<>>, rng |-> rng]

inputs_and_change_output(state, rng, sender, refund, value) ==
    LET unspent == unspent_notes(state, sender)
    IN  IF ~unspent.ok THEN unspent
        ELSE
        LET notes == unspent.val
            sender_vk == view_key(sender)
            failed == {i \in DOMAIN notes :
                          \/ ~note_value(notes[i], sender_vk).ok
                          \/ ~blinding_factor(notes[i], sender_vk).ok}
        IN  IF failed # {} THEN Err("Phoenix")
            ELSE
            LET notes_and_values ==
                    [i \in DOMAIN notes |->
                        [note |-> notes[i],
                         value |-> note_value(notes[i], sender_vk).val,
                         blinder |-> blinding_factor(notes[i], sender_vk).val]]
                accumulated_value == SumSeq(Values(notes_and_values))
            IN  IF accumulated_value < value THEN Err("NotEnoughBalance")
                ELSE
                LET picked == pick_notes(value, notes_and_values)
                IN  IF picked = <<>> THEN Err("NoteCombinationProblem")
                    ELSE
                    LET change == SumSeq(Values(picked)) - value
                        out == change_outputs(rng, refund, change)
                    IN  Ok([inputs |-> picked, outputs |-> out.outputs, rng |-> out.rng])

(***************************************************************************)
(* The Wallet specification: the state client's notes and nullifiers and a *)
(* value to cover are drawn, then unspent_notes or                         *)
(* inputs_and_change_output runs for the sender's key.                     *)
(***************************************************************************)
MaxWalletNotes == 5

MaxWalletValue == 6

WalletNoteValues == {1, 3}

Sender == derive_ssk("seed", 0)

Stranger == derive_ssk("seed", 1)

Refund == public_spend_key(derive_ssk("seed", 2))

\* The notes held by the state client: note i of value values[i], created
\* for the sender except the note at position `foreign` (0: none).
StateNotes(values, foreign) ==
    [i \in DOMAIN values |->
        [note |-> i, value |-> values[i],
         owner |-> IF i = foreign THEN Stranger ELSE Sender]]

WalletState(values, foreign, spent) ==
    [notes |-> StateNotes(values, foreign),
     existing_nullifiers |-> {gen_nullifier([note |-> i], Sender) : i \in spent},
     notes_ok |-> TRUE, nullifiers_ok |-> TRUE]

WalletValueLists == UNION {[1..n -> WalletNoteValues] : n \in 0..MaxWalletNotes}

\* The sender's notes, the first of them a stranger's or not, any of them
\* spent, with every value to cover; and a state client that fails.
InitWallet ==
    /\ \E vs \in WalletValueLists :
           \/ \E spent \in SUBSET (DOMAIN vs), f \in 0..1, v \in 0..MaxWalletValue :
                  call = [state |-> WalletState(vs, f, spent), value |-> v]
           \/ /\ Len(vs) = 1
              /\ \E ok \in {<<FALSE, TRUE>>, <<TRUE, FALSE>>} :
                     call = [state |-> [WalletState(vs, 0, {}) EXCEPT
                                            !.notes_ok = ok[1],
                                            !.nullifiers_ok = ok[2]],
                             value |-> 1]
    /\ op = "none"
    /\ ret = None

UnspentNotes ==
    /\ op = "none"
    /\ op' = "unspent_notes"
    /\ ret' = unspent_notes(call.state, Sender)
    /\ UNCHANGED call

InputsAndChangeOutput ==
    /\ op = "none"
    /\ op' = "inputs_and_change_output"
    /\ ret' = inputs_and_change_output(call.state, 0, Sender, Refund, call.value)
    /\ UNCHANGED call

NextWallet == UnspentNotes \/ InputsAndChangeOutput

SpecWallet == InitWallet /\ [][NextWallet]_vars

(***************************************************************************)
(* Vocabulary of the selection claims, stated without the operators above: *)
(* the ascending stable order by rank, the 4-index combinations and their  *)
(* lexicographic order.                                                    *)
(***************************************************************************)
RECURSIVE SumOver(_, _)
SumOver(S, nodes) ==
    IF S = {} THEN 0
    ELSE LET i == CHOOSE x \in S : TRUE
         IN  nodes[i].value + SumOver(S \ {i}, nodes)

Total(nodes) == SumOver(DOMAIN nodes, nodes)

\* Some subset of at most 4 notes of the pool sums to at least target.
Coverable(nodes, target) ==
    \E S \in SUBSET (DOMAIN nodes) :
        Cardinality(S) <= MAX_INPUT_NOTES /\ SumOver(S, nodes) >= target

\* sel is made of nodes of the pool, none used twice.
IsSubPool(sel, nodes) ==
    /\ \A i \in DOMAIN sel : sel[i] \in Range(nodes)
    /\ \A i, j \in DOMAIN sel : i # j => sel[i] # sel[j]

RankOf(nodes, i) ==
    Cardinality({j \in DOMAIN nodes :
        \/ nodes[j].value < nodes[i].value
        \/ nodes[j].value = nodes[i].value /\ j < i})

Ascending(nodes) ==
    [r \in DOMAIN nodes |-> nodes[CHOOSE i \in DOMAIN nodes : RankOf(nodes, i) = r - 1]]

Combinations(n) ==
    {[k \in 0..(MAX_INPUT_NOTES - 1) |->
         CHOOSE x \in S : Cardinality({y \in S : y < x}) = k] :
     S \in {T \in SUBSET (0..(n - 1)) : Cardinality(T) = MAX_INPUT_NOTES}}

LexLess(a, b) ==
    \E k \in DOMAIN a : a[k] < b[k] /\ \A j \in DOMAIN a : j < k => a[j] = b[j]

ComboSum(asc, c) == SumOver({c[k] + 1 : k \in DOMAIN c}, asc)

ComboNodes(asc, c) == [k \in 1..MAX_INPUT_NOTES |-> asc[c[k - 1] + 1]]

Covering(asc, target) ==
    {c \in Combinations(Len(asc)) : ComboSum(asc, c) >= target}

SevenNotes == GenNotes(<<2, 1, 4, 3, 5, 7, 6>>)

(***************************************************************************)
(* C1: selection coverage of utils::inputs.  An empty pool or a pool whose *)
(* total is below target gives None; a non-empty pool whose total reaches  *)
(* target and of which at most 4 notes reach target gives Some(selection), *)
(* the selection made of 1 to 4 distinct nodes of the pool that sum to at  *)
(* least target.                                                           *)
(***************************************************************************)
C1_SelectionCoverage ==
    op = "inputs" =>
        LET nodes == call.nodes
            target == call.target
        IN  /\ (nodes = <<>> \/ Total(nodes) < target) => ret = None
            /\ (nodes # <<>> /\ Total(nodes) >= target /\ Coverable(nodes, target)) =>
                   /\ ret.some
                   /\ Len(ret.val) \in 1..MAX_INPUT_NOTES
                   /\ IsSubPool(ret.val, nodes)
                   /\ Total(ret.val) >= target

C1_Witness ==
    /\ op = "inputs"
    /\ Len(call.nodes) > MAX_INPUT_NOTES
    /\ ret.some
    /\ Len(ret.val) = MAX_INPUT_NOTES
    /\ Total(ret.val) > call.target
    /\ ret.val # SubSeq(Ascending(call.nodes), 1, MAX_INPUT_NOTES)

(***************************************************************************)
(* C2: utils::inputs returns None whenever no subset of at most 4 notes    *)
(* reaches target (also when the pool's total does), and never returns     *)
(* Some of an empty selection or of one that sums to less than target.     *)
(***************************************************************************)
C2_NoSelectionIsNone ==
    op = "inputs" =>
        /\ ~Coverable(call.nodes, call.target) => ret = None
        /\ ret.some => ret.val # <<>> /\ Total(ret.val) >= call.target

(***************************************************************************)
(* C3: the selection returned by pick_notes and by utils::inputs has at    *)
(* most MAX_INPUT_NOTES = 4 notes, for every pool and every target.        *)
(***************************************************************************)
C3_AtMostFourInputs ==
    /\ op = "pick_notes" => Len(ret) <= MAX_INPUT_NOTES
    /\ (op = "inputs" /\ ret.some) => Len(ret.val) <= MAX_INPUT_NOTES

C3_Witness ==
    /\ op = "pick_notes"
    /\ Len(call.nodes) > MAX_INPUT_NOTES
    /\ Len(ret) = MAX_INPUT_NOTES

(***************************************************************************)
(* C5: for a pool of more than 4 notes pick_notes returns the notes at the *)
(* lexicographically smallest 4-index combination of the ascending pool    *)
(* whose values sum to at least target (every combination before it sums   *)
(* to less), and the empty selection if no combination reaches target.     *)
(* Values {2,1,4,3,5,7,6}: target 20 gives 4 notes summing to exactly 20,  *)
(* target 100 gives the empty selection.                                   *)
(***************************************************************************)
C5_LexicographicFirst ==
    (op = "pick_notes" /\ Len(call.nodes) > MAX_INPUT_NOTES) =>
        LET asc == Ascending(call.nodes)
            covering == Covering(asc, call.target)
        IN  /\ covering = {} => ret = <<>>
            /\ covering # {} =>
                   \E c \in covering :
                       /\ ret = ComboNodes(asc, c)
                       /\ \A d \in Combinations(Len(asc)) :
                              LexLess(d, c) => ComboSum(asc, d) < call.target
            /\ (call.nodes = SevenNotes /\ call.target = 20) =>
                   Len(ret) = 4 /\ Total(ret) = 20
            /\ (call.nodes = SevenNotes /\ call.target = 100) => ret = <<>>

C5_Witness ==
    /\ op = "pick_notes"
    /\ call.nodes = SevenNotes
    /\ call.target = 20
    /\ Values(ret) = <<2, 5, 6, 7>>

(***************************************************************************)
(* C6 as stated: for a pool of more than 4 notes the returned combination  *)
(* has the smallest total among all 4-note combinations that reach target. *)
(***************************************************************************)
C6_MinimalTotal ==
    (op = "pick_notes" /\ Len(call.nodes) > MAX_INPUT_NOTES /\ ret # <<>>) =>
        LET asc == Ascending(call.nodes)
        IN  \A c \in Covering(asc, call.target) : Total(ret) <= ComboSum(asc, c)

(***************************************************************************)
(* C6 as amended: for a pool of more than 4 notes for which some 4-note    *)
(* combination reaches target, pick_notes returns 4 notes, and their total *)
(* is the smallest among the 4-note combinations that reach target and     *)
(* hold the same three lowest-ranked notes as the returned one.            *)
(***************************************************************************)
C6_MinimalAmongSamePrefix ==
    (op = "pick_notes" /\ Len(call.nodes) > MAX_INPUT_NOTES) =>
        LET asc == Ascending(call.nodes)
        IN  Covering(asc, call.target) # {} =>
                /\ Len(ret) = MAX_INPUT_NOTES
                /\ \A c \in Covering(asc, call.target) :
                       (\A k \in 1..(MAX_INPUT_NOTES - 1) : asc[c[k - 1] + 1] = ret[k])
                           => Total(ret) <= ComboSum(asc, c)

C6_Witness ==
    /\ op = "pick_notes"
    /\ Values(call.nodes) = <<0, 1, 0, 3, 1, 0>>
    /\ call.target = 2
    /\ Values(ret) = <<0, 0, 0, 3>>

(***************************************************************************)
(* C7: a pool of 1 to 4 notes is returned by pick_notes whole, unchanged   *)
(* and in the order given, whatever the target; utils::inputs on           *)
(* [100, 500, 300] with target 600 returns exactly that list.              *)
(***************************************************************************)
C7_SmallPoolReturnedWhole ==
    /\ (op = "pick_notes" /\ Len(call.nodes) \in 1..MAX_INPUT_NOTES) => ret = call.nodes
    /\ (op = "inputs" /\ Values(call.nodes) = <<100, 500, 300>> /\ call.target = 600) =>
           ret = Some(call.nodes)

C7_Witness ==
    /\ op = "pick_notes"
    /\ Values(call.nodes) = <<4, 2, 1, 3>>
    /\ call.target = 2
    /\ Len(ret) = 4
    /\ Values(ret) = <<4, 2, 1, 3>>

(***************************************************************************)
(* Vocabulary of the Wallet claims: the notes of the state client whose    *)
(* nullifier under the sender's key is not on chain.                       *)
(***************************************************************************)
IsSpent(state, note) ==
    \E n \in state.existing_nullifiers :
        n.nullifier_of = note.note /\ n.key = Sender

UnspentOf(state) == SelectSeq(state.notes, LAMBDA note : ~IsSpent(state, note))

NoteTotal(notes) == SumSeq([i \in DOMAIN notes |-> notes[i].value])

ClientAnswers(state) ==
    /\ state.notes_ok
    /\ state.nullifiers_ok
    /\ \A i \in DOMAIN UnspentOf(state) : UnspentOf(state)[i].owner = Sender

\* No selection exists: no unspent note, or more than 4 of which no 4 cover.
NoCombination(unspent, value) ==
    \/ unspent = <<>>
    \/ /\ Len(unspent) > MAX_INPUT_NOTES
       /\ Covering(Ascending(unspent), value) = {}

(***************************************************************************)
(* C8: when Wallet::inputs_and_change_output succeeds the selected sum is  *)
(* target plus the returned outputs: exactly one change output of value    *)
(* sum - target, payable to the refund address, when the sum exceeds       *)
(* target, and no output when it equals target.  It fails with             *)
(* NotEnoughBalance when the unspent total is below target and with        *)
(* NoteCombinationProblem when the selection is empty.                     *)
(***************************************************************************)
C8_ChangeIsExcess ==
    (op = "inputs_and_change_output" /\ ClientAnswers(call.state)) =>
        LET unspent == UnspentOf(call.state)
            value == call.value
        IN  /\ NoteTotal(unspent) < value => ret = Err("NotEnoughBalance")
            /\ (NoteTotal(unspent) >= value /\ NoCombination(unspent, value)) =>
                   ret = Err("NoteCombinationProblem")
            /\ (NoteTotal(unspent) >= value /\ ~NoCombination(unspent, value)) => ret.ok
            /\ ret.ok =>
                   LET sum == Total(ret.val.inputs)
                       outputs == ret.val.outputs
                   IN  /\ sum >= value
                       /\ sum = value + Total(outputs)
                       /\ sum = value => outputs = <<>>
                       /\ sum > value =>
                              /\ Len(outputs) = 1
                              /\ outputs[1].value = sum - value
                              /\ outputs[1].note.value = sum - value
                              /\ outputs[1].note.receiver = Refund

C8_Witness ==
    /\ op = "inputs_and_change_output"
    /\ Len(UnspentOf(call.state)) > MAX_INPUT_NOTES
    /\ ret.ok
    /\ Len(ret.val.outputs) = 1
    /\ ret.val.outputs[1].value = 2

C8_WitnessExact ==
    /\ op = "inputs_and_change_output"
    /\ ret.ok
    /\ call.value > 0
    /\ ret.val.outputs = <<>>

(***************************************************************************)
(* C9, Wallet half: Wallet::unspent_notes returns, in the order fetched,   *)
(* exactly the notes whose nullifier the state client does not report.     *)
(***************************************************************************)
C9_WalletPassesOnlyUnspent ==
    (op = "unspent_notes" /\ ret.ok) =>
        /\ ret.val = UnspentOf(call.state)
        /\ \A i \in DOMAIN ret.val :
               gen_nullifier(ret.val[i], Sender) \notin call.state.existing_nullifiers

C9_WalletWitness ==
    /\ op = "unspent_notes"
    /\ ret.ok
    /\ ret.val # <<>>
    /\ Len(ret.val) < Len(call.state.notes)

(***************************************************************************)
(* compat::crypto::unspent_spent_notes.  The arguments arrive as JSON: a   *)
(* list of rkyv-serialized notes, the list of their serialized nullifiers, *)
(* the serialized vector of nullifiers the node knows, and a list of       *)
(* public spend keys.  Serialized values are modelled by their kind and    *)
(* content; bytes that deserialize to nothing are Garbage.                 *)
(***************************************************************************)
Garbage == [kind |-> "garbage"]

NoteBytes(pos) == [kind |-> "Note", val |-> [pos |-> pos]]

ScalarBytes(s) == [kind |-> "BlsScalar", val |-> s]

ScalarVecBytes(set) == [kind |-> "Vec<BlsScalar>", val |-> set]

from_bytes(type, bytes) ==
    IF bytes.kind = type THEN Some(bytes.val) ELSE None

fail == Err("fail")

into_ptr(response) == Ok(response)

Min(a, b) == IF a <= b THEN a ELSE b

\* zip stops at the shortest of the three lists.
ZipLen(notes, nullifiers_of_notes, psks) ==
    Min(Min(Len(notes), Len(nullifiers_of_notes)), Len(psks))

RECURSIVE partition_loop(_, _, _, _, _, _)
partition_loop(a, existing, i, n, spent, unspent) ==
    IF i > n
    THEN into_ptr([spent_notes |-> spent, unspent_notes |-> unspent])
    ELSE LET note == a.notes[i]
             parsed_note == from_bytes("Note", note)
             parsed_nullifier == from_bytes("BlsScalar", a.nullifiers_of_notes[i])
         IN  IF ~parsed_note.some THEN fail
             ELSE IF ~parsed_nullifier.some THEN fail
             ELSE LET info == [pos |-> parsed_note.val.pos,
                               psk |-> a.psks[i],
                               note |-> note]
                  IN  IF parsed_nullifier.val \in existing
                      THEN partition_loop(a, existing, i + 1, n,
                                          Append(spent, info), unspent)
                      ELSE partition_loop(a, existing, i + 1, n,
                                          spent, Append(unspent, info))

unspent_spent_notes(args) ==
    IF ~args.some THEN fail
    ELSE LET a == args.val
             existing_nullifiers == from_bytes("Vec<BlsScalar>", a.existing_nullifiers)
         IN  IF ~existing_nullifiers.some THEN fail
             ELSE partition_loop(a, existing_nullifiers.val, 1,
                                 ZipLen(a.notes, a.nullifiers_of_notes, a.psks),
                                 <<>>, <<>>)

MaxPartNotes == 3

PartScalars == {1, 2}

SeqsUpTo(S, n) == UNION {[1..k -> S] : k \in 0..n}

PartNoteLists == SeqsUpTo({NoteBytes(1), NoteBytes(2), Garbage}, MaxPartNotes)

PartNullifierLists ==
    SeqsUpTo({ScalarBytes(x) : x \in PartScalars} \cup {Garbage}, MaxPartNotes)

PartExisting == {ScalarVecBytes(e) : e \in SUBSET PartScalars} \cup {Garbage}

PartKeyLists == SeqsUpTo({"psk"}, MaxPartNotes)

\* The argument string is the JSON of four lists, or (None) is not.
InitPartition ==
    /\ \/ call = None
       \/ \E ns \in PartNoteLists, fs \in PartNullifierLists,
             ex \in PartExisting, ps \in PartKeyLists :
              call = Some([notes |-> ns, nullifiers_of_notes |-> fs,
                           existing_nullifiers |-> ex, psks |-> ps])
    /\ op = "none"
    /\ ret = None

UnspentSpentNotes ==
    /\ op = "none"
    /\ op' = "unspent_spent_notes"
    /\ ret' = unspent_spent_notes(call)
    /\ UNCHANGED call

NextPartition == UnspentSpentNotes

SpecPartition == InitPartition /\ [][NextPartition]_vars

\* The notes at the positions of `notes` that are in `keep`, in order.
RECURSIVE NotesWhere(_, _, _)
NotesWhere(notes, i, keep) ==
    IF i > Len(notes) THEN <<>>
    ELSE IF i \in keep THEN <<notes[i]>> \o NotesWhere(notes, i + 1, keep)
         ELSE NotesWhere(notes, i + 1, keep)

NoteFields(infos) == [i \in DOMAIN infos |-> infos[i].note]

\* The nullifier submitted for note i is among the existing nullifiers.
NullifierExists(a, i) ==
    /\ i <= Len(a.nullifiers_of_notes)
    /\ a.nullifiers_of_notes[i] \in
           {ScalarBytes(x) : x \in from_bytes("Vec<BlsScalar>", a.existing_nullifiers).val}

(***************************************************************************)
(* C9: whenever unspent_spent_notes answers, every submitted note is in    *)
(* exactly one of the two lists, spent iff its nullifier is among the      *)
(* existing nullifiers, input order kept and no note lost.                 *)
(***************************************************************************)
C9_PartitionLosesNoNote ==
    (op = "unspent_spent_notes" /\ ret.ok) =>
        LET a == call.val
        IN  /\ Len(ret.val.spent_notes) + Len(ret.val.unspent_notes) = Len(a.notes)
            /\ NoteFields(ret.val.spent_notes) =
                   NotesWhere(a.notes, 1, {i \in DOMAIN a.notes : NullifierExists(a, i)})
            /\ NoteFields(ret.val.unspent_notes) =
                   NotesWhere(a.notes, 1, {i \in DOMAIN a.notes : ~NullifierExists(a, i)})

(***************************************************************************)
(* C9 for well-paired arguments: with one nullifier and one key per note   *)
(* the partition is exact.                                                 *)
(***************************************************************************)
C9_PartitionOfPairedLists ==
    (/\ op = "unspent_spent_notes"
     /\ ret.ok
     /\ Len(call.val.nullifiers_of_notes) = Len(call.val.notes)
     /\ Len(call.val.psks) = Len(call.val.notes)) =>
        LET a == call.val
        IN  /\ Len(ret.val.spent_notes) + Len(ret.val.unspent_notes) = Len(a.notes)
            /\ NoteFields(ret.val.spent_notes) =
                   NotesWhere(a.notes, 1, {i \in DOMAIN a.notes : NullifierExists(a, i)})
            /\ NoteFields(ret.val.unspent_notes) =
                   NotesWhere(a.notes, 1, {i \in DOMAIN a.notes : ~NullifierExists(a, i)})

C9_PairedWitness ==
    /\ op = "unspent_spent_notes"
    /\ ret.ok
    /\ Len(call.val.notes) = 2
    /\ Len(ret.val.spent_notes) = 1
    /\ Len(ret.val.unspent_notes) = 1

(***************************************************************************)
(* tx::UnprovenTransaction::new.  A PreInput is [note, opening, value,     *)
(* ssk]; an opening is [root, leaf]; a requested output is [note_type,     *)
(* receiver, ref_id, value] with the receiver a Base58 string; the         *)
(* crossover is [blinder, crossover, value] with two serialized fields;    *)
(* a call is [contract, method, payload] with the contract a Base58        *)
(* string.  The hash is ideal: the digest names the components hashed, in  *)
(* the order they are hashed.  The random number generator is cloned       *)
(* before every draw, so every draw is the first draw of state rng.        *)
(***************************************************************************)
Bs58(type, val, len) == [kind |-> "bs58", type |-> type, val |-> val, len |-> len]

bs58_to_psk(receiver) ==
    IF receiver.kind = "bs58" /\ receiver.type = "PublicSpendKey"
    THEN Some(receiver.val) ELSE None

ContractIdSize == 32

bs58_decode(string) ==
    IF string.kind = "bs58" THEN Some(string) ELSE None

NoteTypeOf(note_type) ==
    IF note_type = "OutputType::Transparent" THEN "NoteType::Transparent"
    ELSE "NoteType::Obfuscated"

sk_r(ssk, note) == [sk_r_of |-> ssk, stealth_address |-> note.note]

sign_double(nsk, rng, msg) == [signer |-> nsk, nonce |-> Random(rng), msg |-> msg]

\* Mutant: the output notes are left out of the hash.
hash_input_without_outputs(nullifiers, output_notes, anchor, fee, crossover, call_triple) ==
    <<nullifiers, anchor, fee, crossover, call_triple>>

hash_input_bytes_from_components(nullifiers, output_notes, anchor, fee, crossover, call_triple) ==
    <<nullifiers, output_notes, anchor, fee, crossover, call_triple>>

Digest(bytes) == [digest |-> bytes]

\* The output loop: None when a receiver does not decode.
new_outputs(rng, outputs) ==
    IF \E i \in DOMAIN outputs : ~bs58_to_psk(outputs[i].receiver).some THEN None
    ELSE Some([i \in DOMAIN outputs |->
                 LET r == Random(rng)
                     blinder == Random(rng)
                     nonce == Random(rng)
                     receiver == bs58_to_psk(outputs[i].receiver).val
                 IN  [note |-> NoteDeterministic(NoteTypeOf(outputs[i].note_type),
                                                 r, nonce, receiver,
                                                 outputs[i].value, blinder),
                      value |-> outputs[i].value,
                      blinder |-> blinder]])

\* The call: None when the contract id does not decode to 32 bytes,
\* otherwise Some of the optional CallData.
new_call(contract_call) ==
    IF ~contract_call.some THEN Some(None)
    ELSE LET decoded == bs58_decode(contract_call.val.contract)
         IN  IF ~decoded.some THEN None
             ELSE IF decoded.val.len # ContractIdSize THEN None
             ELSE Some(Some([contract |-> decoded.val.val,
                             method |-> contract_call.val.method,
                             payload |-> contract_call.val.payload]))

\* The crossover: a field that does not deserialize leaves no crossover.
new_crossover(crossover) ==
    IF ~crossover.some THEN None
    ELSE LET parsed == from_bytes("PhoenixCrossover", crossover.val.crossover)
             blinder == from_bytes("JubJubScalar", crossover.val.blinder)
         IN  IF ~parsed.some \/ ~blinder.some THEN None
             ELSE Some([crossover |-> parsed.val,
                        value |-> crossover.val.value,
                        blinder |-> blinder.val])

call_phoenix(call_data) ==
    IF call_data.some
    THEN Some(<<call_data.val.contract, call_data.val.method, call_data.val.payload>>)
    ELSE None

crossover_of(crossover) ==
    IF crossover.some THEN Some(crossover.val.crossover) ELSE None

\* Mutant: the anchor is taken from the last input.
anchor_of_last(pre_inputs) == pre_inputs[Len(pre_inputs)].opening.root

\* inputs.first().map(|i| i.opening.root().hash) of a non-empty list
anchor_of(pre_inputs) == pre_inputs[1].opening.root

new(rng, pre_inputs, outputs, fee, crossover, contract_call) ==
    LET nullifiers == [i \in DOMAIN pre_inputs |->
                           gen_nullifier(pre_inputs[i].note, pre_inputs[i].ssk)]
    IN  IF pre_inputs = <<>> THEN None
        ELSE
        LET anchor == anchor_of(pre_inputs)
            outs == new_outputs(rng, outputs)
            call_data == new_call(contract_call)
        IN  IF ~outs.some THEN None
            ELSE IF ~call_data.some THEN None
            ELSE
            LET output_notes == [i \in DOMAIN outs.val |-> outs.val[i].note]
                wasm_crossover == new_crossover(crossover)
                tx_hash == Digest(hash_input_bytes_from_components(
                               nullifiers, output_notes, anchor, fee,
                               crossover_of(wasm_crossover),
                               call_phoenix(call_data.val)))
                blinders == [i \in DOMAIN pre_inputs |->
                                blinding_factor(pre_inputs[i].note,
                                                view_key(pre_inputs[i].ssk))]
            IN  IF \E i \in DOMAIN pre_inputs : ~blinders[i].ok THEN None
                ELSE Some([inputs |->
                              [i \in DOMAIN pre_inputs |->
                                  LET nsk == sk_r(pre_inputs[i].ssk, pre_inputs[i].note)
                                  IN  [nullifier |-> nullifiers[i],
                                       opening |-> pre_inputs[i].opening,
                                       note |-> pre_inputs[i].note,
                                       value |-> pre_inputs[i].value,
                                       blinder |-> blinders[i].val,
                                       pk_r_prime |-> [pk_r_prime_of |-> nsk],
                                       sig |-> sign_double(nsk, rng, tx_hash)]],
                           outputs |-> outs.val,
                           anchor |-> anchor,
                           fee |-> fee,
                           crossover |-> wasm_crossover,
                           call |-> call_data.val])

(***************************************************************************)
(* The assembly specification: a request is drawn and assembled by New;    *)
(* NewAgain assembles the same request with another list of outputs.       *)
(***************************************************************************)
MaxTxInputs == 2

MaxTxOutputs == 2

TxNote(pos, owner, value) == [note |-> pos, value |-> value, owner |-> owner]

TxOpening(root, pos) == [root |-> root, leaf |-> pos]

\* Notes of the sender, two under one root and one under another, and a
\* note of a stranger presented with the sender's key.
TxPreInputs ==
    {[note |-> TxNote(1, Sender, 3), opening |-> TxOpening("A", 1),
      value |-> 3, ssk |-> Sender],
     [note |-> TxNote(2, Sender, 1), opening |-> TxOpening("B", 2),
      value |-> 1, ssk |-> Sender],
     [note |-> TxNote(4, Sender, 1), opening |-> TxOpening("A", 4),
      value |-> 1, ssk |-> Sender],
     [note |-> TxNote(3, Stranger, 1), opening |-> TxOpening("A", 3),
      value |-> 1, ssk |-> Sender]}

RefundAddress == Bs58("PublicSpendKey", Refund, 64)

TxOutputs ==
    {[note_type |-> "OutputType::Obfuscated", receiver |-> RefundAddress,
      ref_id |-> 0, value |-> 1],
     [note_type |-> "OutputType::Obfuscated", receiver |-> RefundAddress,
      ref_id |-> 1, value |-> 1],
     [note_type |-> "OutputType::Transparent", receiver |-> RefundAddress,
      ref_id |-> 0, value |-> 2],
     [note_type |-> "OutputType::Transparent", receiver |-> Garbage,
      ref_id |-> 0, value |-> 1]}

TxFee == [gas_limit |-> 2, gas_price |-> 1, refund |-> Refund]

CrossoverBytes(value) ==
    [kind |-> "PhoenixCrossover", val |-> [value_commitment |-> value]]

BlinderBytes == [kind |-> "JubJubScalar", val |-> [blinder_of |-> "crossover"]]

ValidCrossover ==
    Some([blinder |-> BlinderBytes, crossover |-> CrossoverBytes(1), value |-> 1])

TxCrossovers ==
    {None, ValidCrossover,
     Some([blinder |-> BlinderBytes, crossover |-> Garbage, value |-> 1]),
     Some([blinder |-> Garbage, crossover |-> CrossoverBytes(1), value |-> 1])}

ValidCall ==
    Some([contract |-> Bs58("ContractId", "contract", ContractIdSize),
          method |-> "stake", payload |-> <<1, 2>>])

TxCalls ==
    {None, ValidCall,
     Some([contract |-> Bs58("ContractId", "contract", ContractIdSize - 1),
           method |-> "stake", payload |-> <<1, 2>>]),
     Some([contract |-> Garbage, method |-> "stake", payload |-> <<>>])}

TxRngs == {0, 1}

TxOutputLists == SeqsUpTo(TxOutputs, MaxTxOutputs)

TxInputLists == SeqsUpTo(TxPreInputs, MaxTxInputs)

\* Two inputs that are notes of the sender.
TxOwnedPairs ==
    {x \in [1..2 -> TxPreInputs] : \A i \in 1..2 : x[i].note.owner = Sender}

TxShortOutputLists == SeqsUpTo(TxOutputs, 1)

TxRequest(rng, pre_inputs, outputs, crossover, contract_call) ==
    [rng |-> rng, inputs |-> pre_inputs, outputs |-> outputs, fee |-> TxFee,
     crossover |-> crossover, call |-> contract_call]

\* Every list of inputs and outputs with a crossover and a call, and every
\* crossover and call with two inputs and at most one output.
InitTx ==
    /\ \E g \in TxRngs :
           \/ \E ins \in TxInputLists, outs \in TxOutputLists :
                  call = TxRequest(g, ins, outs, ValidCrossover, ValidCall)
           \/ \E ins \in TxOwnedPairs, outs \in TxShortOutputLists,
                 c \in TxCrossovers, d \in TxCalls :
                  call = TxRequest(g, ins, outs, c, d)
    /\ op = "none"
    /\ ret = None

New ==
    /\ op = "none"
    /\ op' = "new"
    /\ ret' = new(call.rng, call.inputs, call.outputs, call.fee,
                  call.crossover, call.call)
    /\ UNCHANGED call

NewAgain ==
    /\ op = "new"
    /\ op' = "new_again"
    /\ \E outs \in TxOutputLists \ {call.outputs} :
           /\ call' = [call EXCEPT !.outputs = outs]
           /\ ret' = new(call.rng, call.inputs, outs, call.fee,
                         call.crossover, call.call)

NextTx == New \/ NewAgain

SpecTx == InitTx /\ [][NextTx]_vars

\* The message the stored components of a transaction hash to.
MessageOf(tx) ==
    Digest(<<[i \in DOMAIN tx.inputs |-> tx.inputs[i].nullifier],
             [i \in DOMAIN tx.outputs |-> tx.outputs[i].note],
             tx.anchor,
             tx.fee,
             IF tx.crossover.some THEN Some(tx.crossover.val.crossover) ELSE None,
             IF tx.call.some
             THEN Some(<<tx.call.val.contract, tx.call.val.method, tx.call.val.payload>>)
             ELSE None>>)

SignedMessages(tx) == {tx.inputs[i].sig.msg : i \in DOMAIN tx.inputs}

Assembled == op \in {"new", "new_again"} /\ ret.some

(***************************************************************************)
(* C10: in every transaction returned by UnprovenTransaction::new all      *)
(* input signatures are over one message, the hash of the stored           *)
(* nullifiers, output notes, anchor, fee, crossover commitment or its      *)
(* absence and call triple or its absence, in this order; and a second     *)
(* assembly of the same inputs, fee, crossover and call whose outputs      *)
(* differ signs a different message.                                       *)
(***************************************************************************)
C10_SignaturesBindTransaction ==
    /\ [](Assembled => SignedMessages(ret.val) = {MessageOf(ret.val)})
    /\ [][(/\ op = "new"
           /\ op' = "new_again"
           /\ ret.some
           /\ ret'.some
           /\ ret.val.outputs # ret'.val.outputs)
          => SignedMessages(ret.val) \cap SignedMessages(ret'.val) = {}]_vars

C10_Witness ==
    /\ op = "new_again"
    /\ ret.some
    /\ Len(ret.val.inputs) = 2
    /\ Len(ret.val.outputs) = 2
    /\ ret.val.outputs[1] # ret.val.outputs[2]
    /\ ret.val.crossover.some
    /\ ret.val.call.some

(***************************************************************************)
(* ffi::execute.  The arguments carry the serialized notes, openings,      *)
(* refund key, optional output and optional call, and the crossover value, *)
(* gas limit and gas price as numbers.  The values drawn are small, so no  *)
(* product or sum saturates.                                               *)
(***************************************************************************)
\* The order of the note hashes: an injection that is not monotone in the
\* position of the note.
note_hash(note) == (note.note * 3) % 5

InsertByHash(sorted, note) ==
    LET k == Cardinality({i \in DOMAIN sorted : note_hash(sorted[i]) <= note_hash(note)})
    IN  SubSeq(sorted, 1, k) \o <<note>> \o SubSeq(sorted, k + 1, Len(sorted))

RECURSIVE SortByHash(_)
SortByHash(notes) ==
    IF notes = <<>> THEN <<>>
    ELSE InsertByHash(SortByHash(SubSeq(notes, 1, Len(notes) - 1)), notes[Len(notes)])

RECURSIVE Dedup(_)
Dedup(notes) ==
    IF Len(notes) <= 1 THEN notes
    ELSE LET rest == Dedup(SubSeq(notes, 1, Len(notes) - 1))
         IN  IF notes[Len(notes)] = notes[Len(notes) - 1] THEN rest
             ELSE Append(rest, notes[Len(notes)])

\* Mutant: notes.dedup() without the sort before it.
sanitize_notes_unsorted(notes) == Dedup(notes)

sanitize_notes(notes) == Dedup(SortByHash(notes))

\* The first key index in 0..=MAX_KEY whose view key decrypts the note.
owner_index(seed, input) ==
    LET owned == {idx \in 0..MAX_KEY :
                     note_value(input, view_key(derive_ssk(seed, idx))).ok}
    IN  IF owned = {} THEN None
        ELSE Some(CHOOSE idx \in owned : \A other \in owned : idx <= other)

\* The ownership loop: every note must decrypt under a key and take the
\* next opening.
full_inputs(seed, notes, openings) ==
    IF \E i \in DOMAIN notes : ~owner_index(seed, notes[i]).some THEN None
    ELSE IF Len(notes) > Len(openings) THEN None
    ELSE Some([i \in DOMAIN notes |->
                 LET idx == owner_index(seed, notes[i]).val
                 IN  [note |-> notes[i],
                      opening |-> openings[i],
                      value |-> note_value(notes[i],
                                           view_key(derive_ssk(seed, idx))).val,
                      idx |-> idx]])

\* The selection of at most MAX_INPUT_NOTES nodes covering target_sum and
\* the notes left over; None when there is no such selection.
knapsack(nodes, target_sum) ==
    IF nodes = <<>> THEN None
    ELSE IF SumSeq(Values(nodes)) < target_sum THEN None
    ELSE LET picked == pick_notes(target_sum, nodes)
         IN  IF picked = <<>> THEN None
             ELSE Some([unspent |-> [i \in DOMAIN
                                        SelectSeq(nodes, LAMBDA n : n \notin Range(picked)) |->
                                        SelectSeq(nodes, LAMBDA n : n \notin Range(picked))[i].note],
                        inputs |-> picked])

saturating_sub(a, b) == IF a > b THEN a - b ELSE 0

\* The assembly called by execute: the fee is made of the gas limit, gas
\* price and refund key, a crossover of value 0 is skipped, and the typed
\* outputs and call are assembled as by `new`.
new_with_gas(rng, pre_inputs, outputs, refund, gas_limit, gas_price, crossover, contract_call) ==
    new(rng, pre_inputs,
        [i \in DOMAIN outputs |->
            [note_type |-> IF outputs[i].type = "NoteType::Transparent"
                           THEN "OutputType::Transparent"
                           ELSE "OutputType::Obfuscated",
             receiver |-> Bs58("PublicSpendKey", outputs[i].receiver, 64),
             ref_id |-> outputs[i].ref_id,
             value |-> outputs[i].value]],
        [gas_limit |-> gas_limit, gas_price |-> gas_price, refund |-> refund],
        IF crossover = 0 THEN None
        ELSE Some([blinder |-> [kind |-> "JubJubScalar", val |-> Random(rng)],
                   crossover |-> CrossoverBytes(crossover),
                   value |-> crossover]),
        IF contract_call.some
        THEN Some([contract |-> Bs58("ContractId", contract_call.val.contract, ContractIdSize),
                   method |-> contract_call.val.method,
                   payload |-> contract_call.val.payload])
        ELSE None)

execute_inner(args) ==
    LET parsed_inputs == from_bytes("Vec<Note>", args.inputs)
        parsed_openings == from_bytes("Vec<Opening>", args.openings)
        refund == from_bytes("PublicSpendKey", args.refund)
        output == from_bytes("Option<OutputValue>", args.output)
        contract_call == from_bytes("Option<CallData>", args.call)
    IN  IF \/ ~parsed_inputs.some
           \/ ~parsed_openings.some
           \/ ~refund.some
           \/ ~output.some
           \/ ~contract_call.some
        THEN None
        ELSE
        LET notes == sanitize_notes(parsed_inputs.val)
            value == IF output.val.some THEN output.val.val.value ELSE 0
            total_output == args.gas_limit * args.gas_price + value
            full == full_inputs(args.seed, notes, parsed_openings.val)
        IN  IF ~full.some THEN None
            ELSE
            LET selection == knapsack(full.val, total_output)
            IN  IF ~selection.some THEN None
                ELSE
                LET pre_inputs == [i \in DOMAIN selection.val.inputs |->
                                      LET n == selection.val.inputs[i]
                                      IN  [note |-> n.note, opening |-> n.opening,
                                           value |-> n.value,
                                           ssk |-> derive_ssk(args.seed, n.idx)]]
                    total_input == SumSeq(Values(pre_inputs))
                    total_refund == saturating_sub(total_input, total_output)
                    outputs ==
                        (IF output.val.some THEN <<output.val.val>> ELSE <<>>)
                        \o (IF total_refund > 0
                            THEN <<[type |-> "NoteType::Obfuscated",
                                    value |-> total_refund,
                                    receiver |-> refund.val,
                                    ref_id |-> 0]>>
                            ELSE <<>>)
                    tx == new_with_gas(args.rng_seed, pre_inputs, outputs, refund.val,
                                       args.gas_limit, args.gas_price,
                                       args.crossover, contract_call.val)
                IN  IF ~tx.some THEN None
                    ELSE Some([unspent |-> selection.val.unspent, tx |-> tx.val])

execute(args) == IF ~args.some THEN None ELSE execute_inner(args.val)

(***************************************************************************)
(* The execute specification: the arguments are drawn and execute runs.    *)
(***************************************************************************)
MaxExecNotes == 3

MaxGasLimit == 2

MaxCrossover == 1

ExecSeed == "seed"

\* Notes of the keys 0, 1 and MAX_KEY of the seed, and a note of another
\* wallet.
ExecNotes ==
    {TxNote(1, derive_ssk(ExecSeed, 0), 3),
     TxNote(2, derive_ssk(ExecSeed, 1), 1),
     TxNote(3, derive_ssk(ExecSeed, MAX_KEY), 2),
     TxNote(4, derive_ssk("other", 0), 1)}

ExecOpenings(n) == [i \in 1..n |-> TxOpening("A", i)]

ExecOutputs ==
    {None} \cup
    {Some([type |-> "NoteType::Transparent", value |-> v,
           receiver |-> public_spend_key(derive_ssk("other", 0)), ref_id |-> 7]) :
        v \in 1..2}

ExecCalls ==
    {None, Some([contract |-> "contract", method |-> "stake", payload |-> <<1, 2>>])}

ExecuteArgs(ns, n, o, c, gl, gp, d) ==
    [seed |-> ExecSeed, rng_seed |-> 0,
     inputs |-> [kind |-> "Vec<Note>", val |-> ns],
     openings |-> [kind |-> "Vec<Opening>", val |-> ExecOpenings(n)],
     refund |-> [kind |-> "PublicSpendKey", val |-> Refund],
     output |-> [kind |-> "Option<OutputValue>", val |-> o],
     crossover |-> c, gas_limit |-> gl, gas_price |-> gp,
     call |-> [kind |-> "Option<CallData>", val |-> d]]

ExecNoteLists == SeqsUpTo(ExecNotes, MaxExecNotes)

ExecOwnedPair ==
    <<TxNote(1, derive_ssk(ExecSeed, 0), 3), TxNote(3, derive_ssk(ExecSeed, MAX_KEY), 2)>>

ExecFields == {"inputs", "openings", "refund", "output", "call"}

\* The argument bytes do not deserialize (None); or every list of notes
\* with every number of openings, output, crossover and gas limit; or two
\* owned notes with every gas price and call; or arguments one of whose
\* serialized fields does not deserialize.
InitExecute ==
    /\ \/ call = None
       \/ \E ns \in ExecNoteLists, n \in 0..MaxExecNotes, o \in ExecOutputs,
             c \in 0..MaxCrossover, gl \in 0..MaxGasLimit :
              call = Some(ExecuteArgs(ns, n, o, c, gl, 1, None))
       \/ \E o \in ExecOutputs, c \in 0..MaxCrossover, gl \in 0..MaxGasLimit,
             gp \in 1..2, d \in ExecCalls :
              call = Some(ExecuteArgs(ExecOwnedPair, 2, o, c, gl, gp, d))
       \/ \E f \in ExecFields, o \in ExecOutputs :
              call = Some([ExecuteArgs(ExecOwnedPair, 2, o, 0, 1, 1, None)
                              EXCEPT ![f] = Garbage])
    /\ op = "none"
    /\ ret = None

Execute ==
    /\ op = "none"
    /\ op' = "execute"
    /\ ret' = execute(call)
    /\ UNCHANGED call

NextExecute == Execute

SpecExecute == InitExecute /\ [][NextExecute]_vars

FeeBudget(fee) == fee.gas_limit * fee.gas_price

(***************************************************************************)
(* C4: in every transaction produced by ffi::execute the sum of the input  *)
(* values is at least the sum of the output values plus the fee budget     *)
(* gas_limit * gas_price plus the crossover value.                         *)
(***************************************************************************)
C4_InputsCoverOutputsFeeCrossover ==
    (op = "execute" /\ ret.some) =>
        Total(ret.val.tx.inputs) >=
            Total(ret.val.tx.outputs) + FeeBudget(ret.val.tx.fee) + call.val.crossover

(***************************************************************************)
(* C4 without the crossover: the inputs of every transaction produced by   *)
(* ffi::execute equal its outputs plus its fee budget.                     *)
(***************************************************************************)
C4_InputsCoverOutputsAndFee ==
    (op = "execute" /\ ret.some) =>
        Total(ret.val.tx.inputs) = Total(ret.val.tx.outputs) + FeeBudget(ret.val.tx.fee)

C4_CrossoverWitness ==
    /\ op = "execute"
    /\ ret.some
    /\ ret.val.tx.crossover.some
    /\ Len(ret.val.tx.inputs) > 1

(***************************************************************************)
(* C11: in every transaction returned by UnprovenTransaction::new the      *)
(* randomness is fresh: within one output r, blinder and nonce come from   *)
(* different draws, no two outputs receive the same (r, blinder, nonce),   *)
(* and the signing randomness of each input is a further draw, used by no  *)
(* output and by no other input.  Random(g) names the draw made from a     *)
(* generator in state g, so equal records are the same draw.               *)
(***************************************************************************)
C11_FreshRandomness ==
    Assembled =>
        LET tx == ret.val
            Draws(i) == <<tx.outputs[i].note.r, tx.outputs[i].blinder,
                          tx.outputs[i].note.nonce>>
            OutputDraws == UNION {Range(Draws(i)) : i \in DOMAIN tx.outputs}
        IN  /\ \A i \in DOMAIN tx.outputs :
                   /\ Draws(i)[1] # Draws(i)[2]
                   /\ Draws(i)[1] # Draws(i)[3]
                   /\ Draws(i)[2] # Draws(i)[3]
            /\ \A i, j \in DOMAIN tx.outputs : i # j => Draws(i) # Draws(j)
            /\ \A i \in DOMAIN tx.inputs :
                   /\ tx.inputs[i].sig.nonce \notin OutputDraws
                   /\ \A j \in DOMAIN tx.inputs :
                          i # j => tx.inputs[i].sig.nonce # tx.inputs[j].sig.nonce

\* The request names a field that new cannot decode or recover.
Undecodable(request) ==
    \/ request.inputs = <<>>
    \/ \E i \in DOMAIN request.outputs :
           ~bs58_to_psk(request.outputs[i].receiver).some
    \/ /\ request.call.some
       /\ \/ ~bs58_decode(request.call.val.contract).some
          \/ bs58_decode(request.call.val.contract).val.len # ContractIdSize
    \/ /\ request.crossover.some
       /\ \/ ~from_bytes("PhoenixCrossover", request.crossover.val.crossover).some
          \/ ~from_bytes("JubJubScalar", request.crossover.val.blinder).some
    \/ \E i \in DOMAIN request.inputs :
           ~blinding_factor(request.inputs[i].note,
                            view_key(request.inputs[i].ssk)).ok

\* The transaction carries what the request asks for.
Carries(tx, request) ==
    /\ Len(tx.outputs) = Len(request.outputs)
    /\ tx.crossover.some <=> request.crossover.some
    /\ tx.crossover.some => tx.crossover.val.value = request.crossover.val.value
    /\ tx.call.some <=> request.call.some
    /\ tx.call.some =>
           /\ tx.call.val.method = request.call.val.method
           /\ tx.call.val.payload = request.call.val.payload

(***************************************************************************)
(* C12: UnprovenTransaction::new is all-or-nothing.  An empty input list,  *)
(* an undecodable receiver, a contract id that does not decode to exactly  *)
(* ContractIdSize bytes, an undecodable crossover or crossover blinder, or *)
(* an input whose blinding factor cannot be recovered each give None; a    *)
(* returned transaction has one output per requested output, the crossover *)
(* with the requested value exactly when one is requested, and the call    *)
(* with method and payload unchanged exactly when one is requested.        *)
(***************************************************************************)
C12_AllOrNothing ==
    op \in {"new", "new_again"} =>
        /\ Undecodable(call) => ~ret.some
        /\ ret.some => Carries(ret.val, call)

\* The Merkle roots of the openings of a list of inputs.
Roots(ins) == {ins[i].opening.root : i \in DOMAIN ins}

(***************************************************************************)
(* C13 as stated: in every transaction returned by new the anchor is the   *)
(* root of the first input's opening and the opening of every input has    *)
(* that root.                                                              *)
(***************************************************************************)
C13_InputsShareAnchor ==
    Assembled =>
        /\ ret.val.anchor = ret.val.inputs[1].opening.root
        /\ Roots(ret.val.inputs) = {ret.val.anchor}

(***************************************************************************)
(* C13: in every transaction returned by new the anchor is the root of the *)
(* first requested input's opening and every input carries the opening it  *)
(* was requested with; when the openings of the requested inputs all have  *)
(* one root, the opening of every input of the transaction has the anchor  *)
(* as its root.                                                            *)
(***************************************************************************)
C13_AnchorOfFirstInput ==
    Assembled =>
        /\ ret.val.anchor = call.inputs[1].opening.root
        /\ Len(ret.val.inputs) = Len(call.inputs)
        /\ \A i \in DOMAIN call.inputs :
               ret.val.inputs[i].opening = call.inputs[i].opening
        /\ Cardinality(Roots(call.inputs)) = 1
               => Roots(ret.val.inputs) = {ret.val.anchor}

C13_Witness ==
    /\ Assembled
    /\ Len(ret.val.inputs) = 2
    /\ ret.val.inputs[1].note # ret.val.inputs[2].note
    /\ ret.val.inputs[2].opening.root = "A"
    /\ Roots(call.inputs) = {"A"}
    /\ ret.val.anchor = "A"

\* Two inputs under different roots are assembled all the same.
C13_MixedRootsWitness ==
    /\ Assembled
    /\ Roots(ret.val.inputs) = {"A", "B"}

(***************************************************************************)
(* Key derivation.  RngWithIndex seeds two generators under one seed, each *)
(* from an index and a tag; DeriveKeys derives the spend key and the stake *)
(* key of one index.                                                       *)
(***************************************************************************)
KeySeeds == {"seed", "other"}

\* Indices on both sides of a byte boundary, and the index whose low byte
\* is the first byte of the tags.
KeyIndices == {0, 1, 83, 255, 256, MAX_KEY}

Terminations == {<<>>, <<75>>, TagSK, TagSSK}

InitDerive ==
    /\ \E seed \in KeySeeds, i, j \in KeyIndices, s, t \in Terminations :
           call = [seed |-> seed,
                   a |-> [index |-> i, termination |-> s],
                   b |-> [index |-> j, termination |-> t]]
    /\ op = "none"
    /\ ret = None

RngWithIndex ==
    /\ op = "none"
    /\ op' = "rng_with_index"
    /\ ret' = [a |-> rng_with_index(call.seed, call.a.index, call.a.termination),
               b |-> rng_with_index(call.seed, call.b.index, call.b.termination)]
    /\ UNCHANGED call

DeriveKeys ==
    /\ op = "none"
    /\ op' = "derive"
    /\ ret' = [sk |-> derive_sk(call.seed, call.a.index),
               stake_sk |-> derive_stake_sk(call.seed, call.a.index)]
    /\ UNCHANGED call

NextDerive == RngWithIndex \/ DeriveKeys

SpecDerive == InitDerive /\ [][NextDerive]_vars

\* The bytes a generator was seeded from.
HashedBy(rng) == rng.chacha12.sha256

\* Seed, the 8 bytes of an index below 2^24 lowest first, and a tag.
SeedIndexTag(seed, index, tag) ==
    <<seed, index % 256, (index \div 256) % 256, (index \div 65536) % 256,
      0, 0, 0, 0, 0>> \o tag

(***************************************************************************)
(* C15: the bytes hashed for derive_sk are the seed, the little-endian     *)
(* index and the tag "SSK", those for derive_stake_sk end in the tag "SK", *)
(* and the two differ; under one seed any two distinct pairs of index and  *)
(* tag give distinct hashed bytes.                                         *)
(***************************************************************************)
C15_DomainSeparation ==
    /\ op = "derive" =>
           /\ HashedBy(ret.sk.ssk_random)
                  = SeedIndexTag(call.seed, call.a.index, <<83, 83, 75>>)
           /\ HashedBy(ret.stake_sk.stake_sk_random)
                  = SeedIndexTag(call.seed, call.a.index, <<83, 75>>)
           /\ HashedBy(ret.sk.ssk_random) # HashedBy(ret.stake_sk.stake_sk_random)
    /\ (op = "rng_with_index" /\ call.a # call.b) =>
           HashedBy(ret.a) # HashedBy(ret.b)

\* Index 83 with "SK" and index 0 with "SSK": the bytes differ only because
\* the index has a fixed width.
C15_Witness ==
    /\ op = "rng_with_index"
    /\ call.a = [index |-> 83, termination |-> TagSK]
    /\ call.b = [index |-> 0, termination |-> TagSSK]
    /\ HashedBy(ret.a) # HashedBy(ret.b)

(***************************************************************************)
(* ffi::nullifiers, ffi::balance, ffi::view_keys, check_note_ownership and *)
(* Wallet::get_balance.  A response is returned together with what the     *)
(* function leaves behind: keys_len, the number of keys its loop derived,  *)
(* and `dropped`, the buffer the response points to when the function      *)
(* drops that buffer on return.                                            *)
(***************************************************************************)
NoteVecBytes(notes) == [kind |-> "Vec<Note>", val |-> notes]

ViewKeyVecBytes(vks) == [kind |-> "Vec<ViewKey>", val |-> vks]

ArgsBytes(type, args) == [kind |-> type, val |-> args]

\* What a reader finds in a buffer that was dropped before it is read: the
\* bytes written, or what has replaced them since.
Dropped(bytes) == {bytes, Garbage}

\* A serialized vector is never empty.
SerializedLen(list) == Len(list) + 1

Max(S) == CHOOSE x \in S : \A y \in S : y <= x

\* for idx in 0..=MAX_KEY, from idx on: the first index under whose view
\* key the value of the note is read.
RECURSIVE first_value_index(_, _, _)
first_value_index(seed, note, idx) ==
    IF idx > MAX_KEY THEN None
    ELSE IF note_value(note, derive_vk(seed, idx)).ok THEN Some(idx)
    ELSE first_value_index(seed, note, idx + 1)

\* for idx in 0..=MAX_KEY, from idx on: the first index whose view key owns
\* the note.
RECURSIVE first_owned_index(_, _, _)
first_owned_index(seed, note, idx) ==
    IF idx > MAX_KEY THEN None
    ELSE IF owns(view_key(derive_ssk(seed, idx)), note) THEN Some(idx)
    ELSE first_owned_index(seed, note, idx + 1)

\* keys_len when the loop over the notes ends, at the first note no key
\* fits or after the last note: keys are derived once, in order, as far as
\* some note needed them.
keys_len_of(found) ==
    LET failing == {i \in DOMAIN found : ~found[i].some}
        stop == IF failing = {} THEN Len(found)
                ELSE CHOOSE i \in failing : \A j \in failing : i <= j
    IN  Max({0} \cup {IF found[i].some THEN found[i].val + 1 ELSE MAX_KEY + 1 :
                        i \in 1..stop})

\* Mutant: the values stay in the order of the notes.
sort_not(values) == values

\* values.sort_by(|a, b| b.cmp(a))
sort_desc(values) ==
    Values(SortByValueDesc([i \in DOMAIN values |-> [value |-> values[i]]]))

take(values, n) == SubSeq(values, 1, Min(n, Len(values)))

skip(values, n) == SubSeq(values, Min(n, Len(values)) + 1, Len(values))

BalanceResponse_success(value, maximum) ==
    [success |-> TRUE, value |-> value, maximum |-> maximum]

BalanceResponse_fail == [success |-> FALSE, value |-> 0, maximum |-> 0]

balance(args) ==
    LET parsed == from_bytes("BalanceArgs", args)
    IN  IF ~parsed.some THEN [response |-> BalanceResponse_fail, keys_len |-> 0]
        ELSE
        LET seed == parsed.val.seed
            parsed_notes == from_bytes("Vec<Note>", parsed.val.notes)
        IN  IF ~parsed_notes.some
            THEN [response |-> BalanceResponse_fail, keys_len |-> 0]
            ELSE
            LET notes == sanitize_notes(parsed_notes.val)
                found == [i \in DOMAIN notes |-> first_value_index(seed, notes[i], 0)]
            IN  IF \E i \in DOMAIN notes : ~found[i].some
                THEN [response |-> BalanceResponse_fail,
                      keys_len |-> keys_len_of(found)]
                ELSE
                LET values == [i \in DOMAIN notes |->
                                  note_value(notes[i],
                                             derive_vk(seed, found[i].val)).val]
                    sum == SumSeq(values)
                    maximum == SumSeq(take(sort_desc(values), 4))
                IN  [response |-> BalanceResponse_success(sum, maximum),
                     keys_len |-> keys_len_of(found)]

NullifiersResponse_success(nullifiers_ptr, nullifiers_len) ==
    [success |-> TRUE, nullifiers_ptr |-> nullifiers_ptr,
     nullifiers_len |-> nullifiers_len]

NullifiersResponse_fail ==
    [success |-> FALSE, nullifiers_ptr |-> 0, nullifiers_len |-> 0]

\* The address of a buffer on the heap.
HeapPtr == 1

nullifiers(args) ==
    LET parsed == from_bytes("NullifiersArgs", args)
        failed == [response |-> NullifiersResponse_fail, keys_len |-> 0,
                   dropped |-> None]
    IN  IF ~parsed.some THEN failed
        ELSE
        LET seed == parsed.val.seed
            parsed_notes == from_bytes("Vec<Note>", parsed.val.notes)
        IN  IF ~parsed_notes.some THEN failed
            ELSE
            LET notes == parsed_notes.val
                found == [i \in DOMAIN notes |-> first_owned_index(seed, notes[i], 0)]
            IN  IF \E i \in DOMAIN notes : ~found[i].some
                THEN [failed EXCEPT !.keys_len = keys_len_of(found)]
                ELSE
                LET list == [i \in DOMAIN notes |->
                                gen_nullifier(notes[i],
                                              derive_ssk(seed, found[i].val))]
                IN  [response |-> NullifiersResponse_success(
                                      HeapPtr, SerializedLen(list)),
                     keys_len |-> keys_len_of(found),
                     dropped |-> Some(ScalarVecBytes(list))]

ViewKeysResponse_success(vks_ptr, vks_len) ==
    [success |-> TRUE, vks_ptr |-> vks_ptr, vks_len |-> vks_len]

ViewKeysResponse_fail == [success |-> FALSE, vks_ptr |-> 0, vks_len |-> 0]

view_keys(args) ==
    LET parsed == from_bytes("ViewKeysArgs", args)
    IN  IF ~parsed.some
        THEN [response |-> ViewKeysResponse_fail, dropped |-> None]
        ELSE LET vks == [i \in 1..(MAX_KEY + 1) |->
                            derive_vk(parsed.val.seed, i - 1)]
             IN  [response |-> ViewKeysResponse_success(HeapPtr, SerializedLen(vks)),
                  dropped |-> Some(ViewKeyVecBytes(vks))]

\* sanitize_seed: the bytes are a seed when their length is RNG_SEED.
sanitize_seed(bytes) ==
    IF bytes.kind = "seed" THEN Some(bytes.val) ELSE None

\* BlsScalar::default()
BlsScalarDefault == [nullifier_of |-> 0, key |-> None]

check_note_ownership(args) ==
    LET seed == sanitize_seed(args.seed)
        note == from_bytes("Note", args.note)
    IN  IF ~seed.some THEN fail
        ELSE IF ~note.some THEN fail
        ELSE LET found == first_owned_index(seed.val, note.val, 0)
                 ssk == derive_ssk(seed.val, found.val)
             IN  into_ptr(
                     [is_owned |-> found.some,
                      nullifier |-> ScalarBytes(
                          IF found.some THEN gen_nullifier(note.val, ssk)
                          ELSE BlsScalarDefault),
                      public_spend_key |->
                          IF found.some
                          THEN Some(Bs58("PublicSpendKey", public_spend_key(ssk), 64))
                          ELSE None])

\* Wallet::get_balance for the key the store holds at ssk_index.
get_balance(state, seed, ssk_index) ==
    LET sender == derive_ssk(seed, ssk_index)
        vk == view_key(sender)
        notes == unspent_notes(state, sender)
    IN  IF ~notes.ok THEN notes
        ELSE LET read == [i \in DOMAIN notes.val |-> note_value(notes.val[i], vk)]
             IN  IF \E i \in DOMAIN read : ~read[i].ok THEN Err("Phoenix")
                 ELSE LET values == sort_desc([i \in DOMAIN read |-> read[i].val])
                          spendable == SumSeq(take(values, MAX_INPUT_NOTES))
                          value == spendable + SumSeq(skip(values, MAX_INPUT_NOTES))
                      IN  Ok([value |-> value, spendable |-> spendable])

(***************************************************************************)
(* The calls on notes.  A call names its function and carries its          *)
(* arguments; each action answers the calls of one function.               *)
(***************************************************************************)
MaxFfiNotes == 3

FfiSeed == "seed"

FfiNote(pos, owner, value, type) ==
    [note |-> pos, value |-> value, owner |-> owner, type |-> type]

\* Notes of the first, the second and the last key of the seed, and two
\* notes of a key of another seed; one transparent note of each seed.
FfiNotes ==
    {FfiNote(1, derive_ssk(FfiSeed, 0), 1, "NoteType::Obfuscated"),
     FfiNote(2, derive_ssk(FfiSeed, 1), 3, "NoteType::Transparent"),
     FfiNote(3, derive_ssk(FfiSeed, MAX_KEY), 2, "NoteType::Obfuscated"),
     FfiNote(4, derive_ssk("other", 0), 1, "NoteType::Obfuscated"),
     FfiNote(5, derive_ssk("other", 0), 2, "NoteType::Transparent")}

\* The notes of the tests: values [10, 250, 15, 39, 55], each for some key
\* below MAX_KEY, obfuscated or transparent.
FixtureValues == <<10, 250, 15, 39, 55>>

FixtureNotes ==
    [i \in DOMAIN FixtureValues |->
        FfiNote(i, derive_ssk(FfiSeed, (7 * i) % MAX_KEY), FixtureValues[i],
                IF i % 2 = 1 THEN "NoteType::Obfuscated"
                ELSE "NoteType::Transparent")]

\* The notes of the tests, and the same with one of them submitted twice.
FixtureLists == {FixtureNotes, FixtureNotes \o <<FixtureNotes[2]>>}

FfiNoteLists == SeqsUpTo(FfiNotes, MaxFfiNotes)

SeedBytes(seed) == [kind |-> "seed", val |-> seed]

FfiCall(fn, args) == [fn |-> fn, args |-> args]

\* BalanceArgs and NullifiersArgs: a seed and the serialized notes.
NotesArgs(fn, notes) ==
    ArgsBytes(IF fn = "balance" THEN "BalanceArgs" ELSE "NullifiersArgs",
              [seed |-> FfiSeed, notes |-> notes])

InitFfi ==
    /\ \/ \E fn \in {"balance", "nullifiers"} :
              \/ \E ns \in FfiNoteLists \cup FixtureLists :
                     call = FfiCall(fn, NotesArgs(fn, NoteVecBytes(ns)))
              \/ call = FfiCall(fn, NotesArgs(fn, Garbage))
              \/ call = FfiCall(fn, Garbage)
       \/ \E n \in FfiNotes \cup Range(FixtureNotes),
             s \in {SeedBytes(FfiSeed), Garbage} :
              \/ call = FfiCall("check_note_ownership",
                                [note |-> ArgsBytes("Note", n), seed |-> s])
              \/ call = FfiCall("check_note_ownership",
                                [note |-> Garbage, seed |-> s])
       \/ \E vs \in WalletValueLists \cup {FixtureValues} :
              \/ \E spent \in SUBSET (DOMAIN vs), f \in 0..1 :
                     call = FfiCall("get_balance",
                                    [state |-> WalletState(vs, f, spent),
                                     seed |-> "seed", ssk_index |-> 0])
              \/ /\ Len(vs) = 1
                 /\ call = FfiCall("get_balance",
                                   [state |-> [WalletState(vs, 0, {}) EXCEPT
                                                   !.notes_ok = FALSE],
                                    seed |-> "seed", ssk_index |-> 0])
    /\ op = "none"
    /\ ret = None

Balance ==
    /\ op = "none"
    /\ call.fn = "balance"
    /\ op' = "balance"
    /\ ret' = balance(call.args)
    /\ UNCHANGED call

\* The response, and what the caller reads where it points.
Nullifiers ==
    /\ op = "none"
    /\ call.fn = "nullifiers"
    /\ op' = "nullifiers"
    /\ LET r == nullifiers(call.args)
       IN  \E found \in (IF r.dropped.some THEN Dropped(r.dropped.val) ELSE {Garbage}) :
               ret' = [response |-> r.response,
                       keys_len |-> r.keys_len,
                       written |-> r.dropped,
                       read |-> IF r.dropped.some THEN Some(found) ELSE None]
    /\ UNCHANGED call

CheckNoteOwnership ==
    /\ op = "none"
    /\ call.fn = "check_note_ownership"
    /\ op' = "check_note_ownership"
    /\ ret' = check_note_ownership(call.args)
    /\ UNCHANGED call

GetBalance ==
    /\ op = "none"
    /\ call.fn = "get_balance"
    /\ op' = "get_balance"
    /\ ret' = get_balance(call.args.state, call.args.seed, call.args.ssk_index)
    /\ UNCHANGED call

NextFfi == Balance \/ Nullifiers \/ CheckNoteOwnership \/ GetBalance

SpecFfi == InitFfi /\ [][NextFfi]_vars

\* The arguments of a call of balance or nullifiers deserialize.
ArgsParse ==
    /\ call.fn \in {"balance", "nullifiers"}
    /\ call.args # Garbage
    /\ call.args.val.notes # Garbage

\* The notes such a call submits, in the order submitted.
Submitted == call.args.val.notes.val

\* The indices in 0..=MAX_KEY whose view key owns the note, and the
\* smallest of them.
Owners(seed, note) == {idx \in 0..MAX_KEY : owns(derive_vk(seed, idx), note)}

FirstOwner(seed, note) ==
    CHOOSE idx \in Owners(seed, note) : \A other \in Owners(seed, note) : idx <= other

\* One more than the highest of the first owners of the notes: the keys
\* derived when no index above the first owner of a note is tried.
KeysUpToFirstOwners(seed, notes) ==
    Max({0} \cup {FirstOwner(seed, notes[i]) + 1 : i \in DOMAIN notes})

\* ffi::nullifiers uses the first owner of every note and tries no index
\* above it.
NullifiersUseFirstOwner ==
    (op = "nullifiers" /\ ret.response.success) =>
        /\ \A i \in DOMAIN Submitted : Owners(FfiSeed, Submitted[i]) # {}
        /\ ret.written.val.val =
               [i \in DOMAIN Submitted |->
                   gen_nullifier(Submitted[i],
                                 derive_ssk(FfiSeed, FirstOwner(FfiSeed, Submitted[i])))]
        /\ ret.keys_len = KeysUpToFirstOwners(FfiSeed, Submitted)

\* ffi::balance uses the first owner of every note and tries no index
\* above it.
BalanceUsesFirstOwner ==
    (op = "balance" /\ ret.response.success) =>
        /\ \A i \in DOMAIN Submitted : Owners(FfiSeed, Submitted[i]) # {}
        /\ ret.keys_len = KeysUpToFirstOwners(FfiSeed, Submitted)

\* check_note_ownership reports a note owned exactly when some key owns
\* it, with the nullifier and the public key of the first owner.
CheckUsesFirstOwner ==
    (op = "check_note_ownership" /\ ret.ok) =>
        LET note == call.args.note.val
            seed == call.args.seed.val
        IN  /\ ret.val.is_owned <=> Owners(seed, note) # {}
            /\ ret.val.is_owned =>
                   LET ssk == derive_ssk(seed, FirstOwner(seed, note))
                   IN  /\ ret.val.nullifier = ScalarBytes(gen_nullifier(note, ssk))
                       /\ ret.val.public_spend_key.some
                       /\ ret.val.public_spend_key.val.val = public_spend_key(ssk)

(***************************************************************************)
(* C16: in ffi::nullifiers, ffi::balance and check_note_ownership the      *)
(* first successful index wins: the index used for a note is the smallest  *)
(* index in 0..=MAX_KEY whose view key owns the note, no higher index is   *)
(* tried, and the nullifier is generated with the secret key of that       *)
(* index.                                                                  *)
(***************************************************************************)
C16_FirstOwnerWins ==
    /\ NullifiersUseFirstOwner
    /\ BalanceUsesFirstOwner
    /\ CheckUsesFirstOwner

\* The same for ffi::nullifiers and check_note_ownership alone.
C16_OwnsLoopsUseFirstOwner == NullifiersUseFirstOwner /\ CheckUsesFirstOwner

\* Notes of the second and of the last key have their nullifiers made.
C16_OwnsLoopsWitness ==
    /\ op = "nullifiers"
    /\ ret.response.success
    /\ Len(Submitted) = 2
    /\ FirstOwner(FfiSeed, Submitted[1]) = MAX_KEY
    /\ FirstOwner(FfiSeed, Submitted[2]) = 1
    /\ ret.keys_len = MAX_KEY + 1

\* A call with a note that no key of the seed owns.
SomeUnowned ==
    /\ ArgsParse
    /\ \E i \in DOMAIN Submitted : Owners(FfiSeed, Submitted[i]) = {}

(***************************************************************************)
(* C17: when a note given to ffi::nullifiers or ffi::balance is owned by   *)
(* no key in 0..=MAX_KEY, the call returns the failure response: success   *)
(* is false and value and maximum, or pointer and length, are 0; there is  *)
(* no partial result.                                                      *)
(***************************************************************************)
C17_UnownedNoteFailsCall ==
    /\ (op = "balance" /\ SomeUnowned) =>
           ret.response = [success |-> FALSE, value |-> 0, maximum |-> 0]
    /\ (op = "nullifiers" /\ SomeUnowned) =>
           /\ ret.response = [success |-> FALSE, nullifiers_ptr |-> 0,
                              nullifiers_len |-> 0]
           /\ ret.written = None

\* The same for ffi::nullifiers alone, and for ffi::balance when the note
\* is obfuscated.
C17_UnownedObfuscatedFailsCall ==
    /\ (/\ op = "balance"
        /\ ArgsParse
        /\ \E i \in DOMAIN Submitted :
               /\ Owners(FfiSeed, Submitted[i]) = {}
               /\ ~IsTransparent(Submitted[i])) =>
           ret.response = [success |-> FALSE, value |-> 0, maximum |-> 0]
    /\ (op = "nullifiers" /\ SomeUnowned) =>
           /\ ret.response = [success |-> FALSE, nullifiers_ptr |-> 0,
                              nullifiers_len |-> 0]
           /\ ret.written = None

(***************************************************************************)
(* C18: check_note_ownership treats a note that no key in 0..=MAX_KEY owns *)
(* as a hard error: it returns the failure result, not a success payload.  *)
(***************************************************************************)
C18_UnownedNoteIsError ==
    (/\ op = "check_note_ownership"
     /\ call.args.seed # Garbage
     /\ call.args.note # Garbage
     /\ Owners(call.args.seed.val, call.args.note.val) = {}) =>
        ret = fail

(***************************************************************************)
(* C19: on success the caller of ffi::nullifiers finds, where the response *)
(* points, exactly one nullifier per submitted note in the order           *)
(* submitted, nothing reordered and nothing dropped as a duplicate: the    *)
(* i-th is the nullifier of the i-th note under the secret key of the      *)
(* index that owns it.                                                     *)
(***************************************************************************)
C19_NullifiersInSubmittedOrder ==
    (op = "nullifiers" /\ ret.response.success) =>
        /\ ret.read.some
        /\ from_bytes("Vec<BlsScalar>", ret.read.val).some
        /\ from_bytes("Vec<BlsScalar>", ret.read.val).val =
               [i \in DOMAIN Submitted |->
                   gen_nullifier(Submitted[i],
                                 derive_ssk(FfiSeed, FirstOwner(FfiSeed, Submitted[i])))]

\* The same of the buffer as ffi::nullifiers serializes it.
C19_NullifiersWrittenInOrder ==
    (op = "nullifiers" /\ ret.response.success) =>
        /\ ret.written.some
        /\ from_bytes("Vec<BlsScalar>", ret.written.val).val =
               [i \in DOMAIN Submitted |->
                   gen_nullifier(Submitted[i],
                                 derive_ssk(FfiSeed, FirstOwner(FfiSeed, Submitted[i])))]

\* A note submitted twice between two others, out of the order of hashes.
C19_WrittenWitness ==
    /\ op = "nullifiers"
    /\ ret.response.success
    /\ Len(Submitted) = 3
    /\ Submitted[1] = Submitted[3]
    /\ note_hash(Submitted[1]) > note_hash(Submitted[2])
    /\ Len(ret.written.val.val) = 3

\* The sum of the values of a set of notes, and the largest sum of the
\* values of at most MAX_INPUT_NOTES of them.
RECURSIVE SetTotal(_)
SetTotal(S) ==
    IF S = {} THEN 0
    ELSE LET n == CHOOSE x \in S : TRUE
         IN  n.value + SetTotal(S \ {n})

LargestFour(S) ==
    Max({SetTotal(T) : T \in {U \in SUBSET S : Cardinality(U) <= MAX_INPUT_NOTES}})

\* What a balance is to be for a set of notes.
IsBalanceOf(value, most, S) ==
    /\ value = SetTotal(S)
    /\ most = LargestFour(S)
    /\ most <= value
    /\ Cardinality(S) <= MAX_INPUT_NOTES => most = value

C20_WalletWitness ==
    /\ op = "get_balance"
    /\ ret.ok
    /\ Len(UnspentOf(call.args.state)) > MAX_INPUT_NOTES
    /\ ret.val.spendable < ret.val.value

(***************************************************************************)
(* Calls made twice.  A call is answered, and answered again with the same *)
(* arguments; `entropy` is the state of the environment, which is another  *)
(* at every call.                                                          *)
(***************************************************************************)
Entropies == {0, 1}

RepeatCall(fn, args, entropy) == [fn |-> fn, args |-> args, entropy |-> entropy]

InitRepeat ==
    /\ \E e \in Entropies :
           \/ \E seed \in KeySeeds, index \in KeyIndices :
                  call = RepeatCall("derive", [seed |-> seed, index |-> index], e)
           \/ \E seed \in KeySeeds :
                  call = RepeatCall("view_keys",
                                    ArgsBytes("ViewKeysArgs", [seed |-> seed]), e)
           \/ call = RepeatCall("view_keys", Garbage, e)
           \/ \E g \in TxRngs, ins \in TxOwnedPairs, outs \in TxShortOutputLists,
                 c \in TxCrossovers :
                  call = RepeatCall("new", TxRequest(g, ins, outs, c, ValidCall), e)
    /\ op = "none"
    /\ ret = None

\* The first call and then the second, in another environment.
Calling ==
    /\ op \in {"none", "first"}
    /\ op' = IF op = "none" THEN "first" ELSE "second"
    /\ call' = [call EXCEPT !.entropy = 1 - @]

DeriveAll ==
    /\ Calling
    /\ call.fn = "derive"
    /\ ret' = [sk |-> derive_sk(call.args.seed, call.args.index),
               pk |-> derive_pk(call.args.seed, call.args.index),
               vk |-> derive_vk(call.args.seed, call.args.index),
               stake_sk |-> derive_stake_sk(call.args.seed, call.args.index)]

\* The response, and what the caller reads where it points.
ViewKeys ==
    /\ Calling
    /\ call.fn = "view_keys"
    /\ LET r == view_keys(call.args)
       IN  \E found \in (IF r.dropped.some THEN Dropped(r.dropped.val) ELSE {Garbage}) :
               ret' = [response |-> r.response,
                       written |-> r.dropped,
                       read |-> IF r.dropped.some THEN Some(found) ELSE None]

NewTwice ==
    /\ Calling
    /\ call.fn = "new"
    /\ ret' = new(call.args.rng, call.args.inputs, call.args.outputs,
                  call.args.fee, call.args.crossover, call.args.call)

NextRepeat == DeriveAll \/ ViewKeys \/ NewTwice

SpecRepeat == InitRepeat /\ [][NextRepeat]_vars

\* The step that answers the call a second time.
SecondCall(fn) == op = "first" /\ op' = "second" /\ call.fn = fn

(***************************************************************************)
(* C14: derivation is deterministic.  derive_sk, derive_pk, derive_vk and  *)
(* derive_stake_sk give the same keys for the same seed and index; the     *)
(* caller of view_keys finds the same list of keys when it calls twice     *)
(* with the same seed; and new, called twice with the same generator       *)
(* state, inputs, outputs, fee, crossover and call, returns the same       *)
(* transaction.                                                            *)
(***************************************************************************)
C14_Deterministic ==
    [][/\ SecondCall("derive") => ret' = ret
       /\ SecondCall("view_keys") =>
              /\ ret'.response.success = ret.response.success
              /\ ret'.read = ret.read
       /\ SecondCall("new") => ret' = ret]_vars

\* The same of the list as view_keys serializes it.
C14_ComputedTheSame ==
    [][/\ SecondCall("derive") => ret' = ret
       /\ SecondCall("view_keys") =>
              /\ ret'.response = ret.response
              /\ ret'.written = ret.written
       /\ SecondCall("new") => ret' = ret]_vars

\* A list of MAX_KEY + 1 keys serialized twice, and a transaction
\* assembled twice.
C14_ComputedWitness ==
    /\ op = "second"
    /\ \/ /\ call.fn = "view_keys"
          /\ ret.response.success
          /\ Len(ret.written.val.val) = MAX_KEY + 1
       \/ /\ call.fn = "new"
          /\ ret.some
          /\ Len(ret.val.outputs) = 1

(***************************************************************************)
(* utils::sanitize_notes, ffi::merge_notes and ffi::filter_notes.  The     *)
(* two exported functions return a response that points to the buffer of   *)
(* serialized notes; they drop that buffer on return.                      *)
(***************************************************************************)
BoolVecBytes(flags) == [kind |-> "Vec<bool>", val |-> flags]

MergeNotesResponse_success(notes_ptr, notes_len) ==
    [success |-> TRUE, notes_ptr |-> notes_ptr, notes_len |-> notes_len]

MergeNotesResponse_fail == [success |-> FALSE, notes_ptr |-> 0, notes_len |-> 0]

\* try_fold: set.extend(notes?); Ok(sanitize_notes(set)), list after list;
\* the first list that does not deserialize ends the fold with the error.
RECURSIVE merge_fold(_, _)
merge_fold(set, lists) ==
    IF lists = <<>> THEN Ok(set)
    ELSE LET parsed == from_bytes("Vec<Note>", Head(lists))
         IN  IF ~parsed.some THEN Err("FromBytesError")
             ELSE merge_fold(sanitize_notes(set \o parsed.val), Tail(lists))

merge_notes(args) ==
    LET parsed == from_bytes("MergeNotesArgs", args)
        failed == [response |-> MergeNotesResponse_fail, dropped |-> None]
    IN  IF ~parsed.some THEN failed
        ELSE LET folded == merge_fold(<<>>, parsed.val.notes)
             IN  IF ~folded.ok THEN failed
                 ELSE [response |-> MergeNotesResponse_success(
                                        HeapPtr, SerializedLen(folded.val)),
                       dropped |-> Some(NoteVecBytes(folded.val))]

FilterNotesResponse_success(notes_ptr, notes_len) ==
    [success |-> TRUE, notes_ptr |-> notes_ptr, notes_len |-> notes_len]

FilterNotesResponse_fail == [success |-> FALSE, notes_ptr |-> 0, notes_len |-> 0]

\* notes.into_iter().zip(flags.into_iter()): the pairs, as many as the
\* shorter of the two lists has elements.
zip(notes, flags) ==
    [i \in 1..Min(Len(notes), Len(flags)) |-> <<notes[i], flags[i]>>]

\* .filter_map(|(n, f)| (!f).then_some(n)).collect()
RECURSIVE filter_map_not(_)
filter_map_not(pairs) ==
    IF pairs = <<>> THEN <<>>
    ELSE (IF ~Head(pairs)[2] THEN <<Head(pairs)[1]>> ELSE <<>>)
         \o filter_map_not(Tail(pairs))

filter_notes(args) ==
    LET parsed == from_bytes("FilterNotesArgs", args)
        failed == [response |-> FilterNotesResponse_fail, dropped |-> None]
    IN  IF ~parsed.some THEN failed
        ELSE
        LET parsed_notes == from_bytes("Vec<Note>", parsed.val.notes)
            parsed_flags == from_bytes("Vec<bool>", parsed.val.flags)
        IN  IF ~parsed_notes.some \/ ~parsed_flags.some THEN failed
            ELSE LET notes == sanitize_notes(
                                  filter_map_not(zip(parsed_notes.val,
                                                     parsed_flags.val)))
                 IN  [response |-> FilterNotesResponse_success(
                                       HeapPtr, SerializedLen(notes)),
                      dropped |-> Some(NoteVecBytes(notes))]

(***************************************************************************)
(* The notes specification: a list of notes is sanitized, lists of notes   *)
(* are merged, or a list of notes is filtered by a list of flags.          *)
(***************************************************************************)
MaxNoteLen == 3

MaxMergeLen == 2

\* Three notes whose order by hash (2, 1, 3) is not the order of creation.
SetNotes ==
    {FfiNote(1, derive_ssk(FfiSeed, 0), 10, "NoteType::Obfuscated"),
     FfiNote(2, derive_ssk(FfiSeed, 1), 250, "NoteType::Transparent"),
     FfiNote(3, derive_ssk(FfiSeed, 2), 15, "NoteType::Obfuscated")}

SetNoteLists == SeqsUpTo(SetNotes, MaxNoteLen)

MergeLists == {NoteVecBytes(l) : l \in SeqsUpTo(SetNotes, MaxMergeLen)}

InitNotes ==
    /\ \/ \E xs \in SetNoteLists : call = FfiCall("sanitize_notes", xs)
       \/ \E a \in MergeLists \cup {Garbage}, b \in MergeLists \cup {Garbage},
             c \in MergeLists :
              \/ call = FfiCall("merge_notes",
                                ArgsBytes("MergeNotesArgs", [notes |-> <<a, b, c>>]))
              \/ call = FfiCall("merge_notes",
                                ArgsBytes("MergeNotesArgs", [notes |-> <<a, b>>]))
              \/ call = FfiCall("merge_notes",
                                ArgsBytes("MergeNotesArgs", [notes |-> <<c>>]))
       \/ call = FfiCall("merge_notes", ArgsBytes("MergeNotesArgs", [notes |-> <<>>]))
       \/ call = FfiCall("merge_notes", Garbage)
       \/ \E xs \in SetNoteLists, fs \in SeqsUpTo(BOOLEAN, MaxNoteLen) :
              call = FfiCall("filter_notes",
                             ArgsBytes("FilterNotesArgs",
                                       [notes |-> NoteVecBytes(xs),
                                        flags |-> BoolVecBytes(fs)]))
       \/ \E xs \in {NoteVecBytes(<<>>), Garbage},
             fs \in {BoolVecBytes(<<TRUE>>), Garbage} :
              call = FfiCall("filter_notes",
                             ArgsBytes("FilterNotesArgs", [notes |-> xs, flags |-> fs]))
       \/ call = FfiCall("filter_notes", Garbage)
    /\ op = "none"
    /\ ret = None

\* sanitize_notes of the list, of the list twice over, and of its own
\* result.
SanitizeNotes ==
    /\ op = "none"
    /\ call.fn = "sanitize_notes"
    /\ op' = "sanitize_notes"
    /\ ret' = [once |-> sanitize_notes(call.args),
               doubled |-> sanitize_notes(call.args \o call.args),
               twice |-> sanitize_notes(sanitize_notes(call.args))]
    /\ UNCHANGED call

\* The response, and what the caller reads where it points.
MergeNotes ==
    /\ op = "none"
    /\ call.fn = "merge_notes"
    /\ op' = "merge_notes"
    /\ LET r == merge_notes(call.args)
       IN  \E found \in (IF r.dropped.some THEN Dropped(r.dropped.val) ELSE {Garbage}) :
               ret' = [response |-> r.response,
                       written |-> r.dropped,
                       read |-> IF r.dropped.some THEN Some(found) ELSE None]
    /\ UNCHANGED call

FilterNotes ==
    /\ op = "none"
    /\ call.fn = "filter_notes"
    /\ op' = "filter_notes"
    /\ LET r == filter_notes(call.args)
       IN  \E found \in (IF r.dropped.some THEN Dropped(r.dropped.val) ELSE {Garbage}) :
               ret' = [response |-> r.response,
                       written |-> r.dropped,
                       read |-> IF r.dropped.some THEN Some(found) ELSE None]
    /\ UNCHANGED call

NextNotes == SanitizeNotes \/ MergeNotes \/ FilterNotes

SpecNotes == InitNotes /\ [][NextNotes]_vars

\* The list holds exactly the notes of S, each once, in the order of their
\* hashes.
IsSanitizedSet(list, S) ==
    /\ Range(list) = S
    /\ \A i \in DOMAIN list : \A j \in DOMAIN list :
           i < j => note_hash(list[i]) < note_hash(list[j])

(***************************************************************************)
(* C21: for every list xs of notes, sanitize_notes(xs ++ xs) and           *)
(* sanitize_notes(sanitize_notes(xs)) both equal sanitize_notes(xs), and   *)
(* the result is in the order of the note hashes, holds no note twice and  *)
(* holds exactly the distinct notes of xs, so that it is the same for      *)
(* every order of xs.                                                      *)
(***************************************************************************)
C21_SanitizeDeduplicates ==
    op = "sanitize_notes" =>
        /\ ret.doubled = ret.once
        /\ ret.twice = ret.once
        /\ IsSanitizedSet(ret.once, Range(call.args))

\* A note submitted twice with another note between, out of hash order.
C21_Witness ==
    /\ op = "sanitize_notes"
    /\ Len(call.args) = 3
    /\ call.args[1] = call.args[3]
    /\ call.args[1] # call.args[2]
    /\ note_hash(call.args[1]) > note_hash(call.args[2])
    /\ Len(ret.once) = 2

\* The lists a call of merge_notes submits, and their concatenation.
MergeSubmitted == call.args.val.notes

RECURSIVE ConcatAll(_)
ConcatAll(lists) ==
    IF lists = <<>> THEN <<>> ELSE Head(lists).val \o ConcatAll(Tail(lists))

\* The bytes are the serialized sanitized union of the submitted lists.
IsMergeOf(bytes, lists) ==
    /\ from_bytes("Vec<Note>", bytes).some
    /\ from_bytes("Vec<Note>", bytes).val = sanitize_notes(ConcatAll(lists))
    /\ IsSanitizedSet(from_bytes("Vec<Note>", bytes).val,
                      UNION {Range(lists[i].val) : i \in DOMAIN lists})

(***************************************************************************)
(* C22: on success the caller of merge_notes finds, where the response     *)
(* points, the sanitized union of all submitted lists: sanitize_notes      *)
(* applied once to their concatenation, every distinct note once in the    *)
(* order of the hashes, whatever the order of the lists and however the    *)
(* duplicates are spread over them.                                        *)
(***************************************************************************)
C22_MergeIsSanitizedUnion ==
    (op = "merge_notes" /\ ret.response.success) =>
        /\ ret.read.some
        /\ IsMergeOf(ret.read.val, MergeSubmitted)

\* The same of the buffer as merge_notes serializes it.
C22_MergeWritesSanitizedUnion ==
    (op = "merge_notes" /\ ret.response.success) =>
        /\ ret.written.some
        /\ IsMergeOf(ret.written.val, MergeSubmitted)

\* Three lists with a note in the first and the last and another between.
C22_WrittenWitness ==
    /\ op = "merge_notes"
    /\ ret.response.success
    /\ Len(MergeSubmitted) = 3
    /\ Len(MergeSubmitted[1].val) = 2
    /\ MergeSubmitted[1].val[1] \in Range(MergeSubmitted[3].val)
    /\ MergeSubmitted[2].val # <<>>
    /\ MergeSubmitted[1].val[1] \notin Range(MergeSubmitted[2].val)
    /\ Len(ret.written.val.val) = 3

\* The notes and the flags a call of filter_notes submits, and the notes
\* whose flag is not true.
FilterSubmitted == call.args.val.notes.val

FilterFlags == call.args.val.flags.val

RECURSIVE NotFlagged(_, _, _)
NotFlagged(notes, flags, i) ==
    IF i > Len(notes) THEN <<>>
    ELSE (IF i \in DOMAIN flags /\ flags[i] THEN <<>> ELSE <<notes[i]>>)
         \o NotFlagged(notes, flags, i + 1)

(***************************************************************************)
(* C23: on success filter_notes has removed exactly the notes whose flag   *)
(* is true: the list it serializes is sanitize_notes of the notes whose    *)
(* flag is not true, and a note without a true flag, also one for which no *)
(* flag was supplied, is in it.                                            *)
(***************************************************************************)
C23_FilterRemovesOnlyFlagged ==
    (op = "filter_notes" /\ ret.response.success) =>
        /\ ret.written.some
        /\ from_bytes("Vec<Note>", ret.written.val).val =
               sanitize_notes(NotFlagged(FilterSubmitted, FilterFlags, 1))

\* The same for a call with at least as many flags as notes.
C23_FilterOfFlaggedLists ==
    (op = "filter_notes" /\ ret.response.success
        /\ Len(FilterFlags) >= Len(FilterSubmitted)) =>
        /\ ret.written.some
        /\ from_bytes("Vec<Note>", ret.written.val).val =
               sanitize_notes(NotFlagged(FilterSubmitted, FilterFlags, 1))

\* Flags true, false, true for three different notes.
C23_FlaggedWitness ==
    /\ op = "filter_notes"
    /\ ret.response.success
    /\ Len(FilterSubmitted) = 3
    /\ FilterFlags = <<TRUE, FALSE, TRUE>>
    /\ Cardinality(Range(FilterSubmitted)) = 3
    /\ ret.written.val.val = <<FilterSubmitted[2]>>

(***************************************************************************)
(* utils::compose and utils::decompose.  A u32, u64 or i64 is the sequence *)
(* of its bytes, least significant first, so that every value of the width *)
(* is a value of the model; the shifts of the code are by whole bytes      *)
(* except the one that isolates the lowest bit.                            *)
(***************************************************************************)
MAX_ALLOC_LEN == 16777216

\* x as u64, of a u32 or a bool.
as_u64(bytes) == [i \in 1..8 |-> IF i \in DOMAIN bytes THEN bytes[i] ELSE 0]

\* x as u32, of a 64-bit value: the low four bytes.
as_u32(bytes) == SubSeq(bytes, 1, 4)

\* x << 8k on 64 bits: the bytes shifted beyond the width are lost.
shl(bytes, k) == [i \in 1..8 |-> IF i > k THEN bytes[i - k] ELSE 0]

\* x >> 8k on a u64: zeros come in at the top.
shr(bytes, k) == [i \in 1..8 |-> IF i + k <= 8 THEN bytes[i + k] ELSE 0]

\* x >> 8k on an i64: the sign bit comes in at the top.
shr_signed(bytes, k) ==
    [i \in 1..8 |-> IF i + k <= 8 THEN bytes[i + k]
                    ELSE IF bytes[8] >= 128 THEN 255 ELSE 0]

RECURSIVE bit_and(_, _, _)
bit_and(a, b, bits) ==
    IF bits = 0 THEN 0
    ELSE (IF a % 2 = 1 /\ b % 2 = 1 THEN 1 ELSE 0)
         + 2 * bit_and(a \div 2, b \div 2, bits - 1)

RECURSIVE bit_or(_, _, _)
bit_or(a, b, bits) ==
    IF bits = 0 THEN 0
    ELSE (IF a % 2 = 1 \/ b % 2 = 1 THEN 1 ELSE 0)
         + 2 * bit_or(a \div 2, b \div 2, bits - 1)

and64(x, y) == [i \in 1..8 |-> bit_and(x[i], y[i], 8)]

or64(x, y) == [i \in 1..8 |-> bit_or(x[i], y[i], 8)]

\* a <= b for two unsigned values of the same width.
RECURSIVE le_unsigned(_, _)
le_unsigned(a, b) ==
    IF a = <<>> THEN TRUE
    ELSE IF a[Len(a)] # b[Len(b)] THEN a[Len(a)] < b[Len(b)]
    ELSE le_unsigned(SubSeq(a, 1, Len(a) - 1), SubSeq(b, 1, Len(b) - 1))

\* ((len as u64) << 40) >> 32
compose_len(len) == shr(shl(as_u64(len), 5), 4)

compose(success, ptr, len) ==
    IF ~le_unsigned(len, le_bytes(MAX_ALLOC_LEN, 4)) THEN Err("panic")
    ELSE Ok(or64(or64(as_u64(IF success THEN <<0>> ELSE <<1>>),
                      shl(as_u64(ptr), 4)),
                 compose_len(len)))

\* 0xFFFFFFF0
LenMask == <<240, 255, 255, 255, 0, 0, 0, 0>>

\* ((result << 63) >> 63) == 0: the lowest bit, brought to the sign and
\* spread over the word, is 0.
decompose(result) ==
    [success |-> result[1] % 2 = 0,
     ptr |-> as_u32(shr_signed(result, 4)),
     len |-> as_u32(shr_signed(and64(result, LenMask), 1))]

\* utils::fail(), the composed failure value.
fail_composed == compose(FALSE, le_bytes(0, 4), le_bytes(0, 4))

(***************************************************************************)
(* The compose specification: a success flag, a pointer and a length are   *)
(* composed, or fail() is called, and the value is decomposed.             *)
(***************************************************************************)
ComposePtrs ==
    {le_bytes(0, 4), le_bytes(1, 4), le_bytes(4837, 4), le_bytes(65536, 4),
     <<255, 255, 255, 127>>, <<0, 0, 0, 128>>, <<255, 255, 255, 255>>}

ComposeLens ==
    {le_bytes(0, 4), le_bytes(1, 4), le_bytes(15, 4), le_bytes(16, 4),
     le_bytes(255, 4), le_bytes(383, 4), le_bytes(65536, 4),
     le_bytes(MAX_ALLOC_LEN - 1, 4), le_bytes(MAX_ALLOC_LEN, 4),
     le_bytes(MAX_ALLOC_LEN + 1, 4), <<255, 255, 255, 255>>}

InitCompose ==
    /\ \/ \E s \in BOOLEAN, p \in ComposePtrs, l \in ComposeLens :
              call = [fn |-> "compose", success |-> s, ptr |-> p, len |-> l]
       \/ call = [fn |-> "fail"]
    /\ op = "none"
    /\ ret = None

Compose ==
    /\ op = "none"
    /\ call.fn = "compose"
    /\ op' = "compose"
    /\ ret' = [composed |-> compose(call.success, call.ptr, call.len)]
    /\ UNCHANGED call

Fail ==
    /\ op = "none"
    /\ call.fn = "fail"
    /\ op' = "compose"
    /\ ret' = [composed |-> fail_composed]
    /\ UNCHANGED call

Decompose ==
    /\ op = "compose"
    /\ ret.composed.ok
    /\ op' = "decompose"
    /\ ret' = [composed |-> ret.composed,
               decomposed |-> decompose(ret.composed.val)]
    /\ UNCHANGED call

NextCompose == Compose \/ Fail \/ Decompose

SpecCompose == InitCompose /\ [][NextCompose]_vars

(***************************************************************************)
(* C24: for every success flag, every 32-bit ptr and every len that        *)
(* compose accepts (len <= MAX_ALLOC_LEN = 2^24), decomposing the composed *)
(* value gives back (success, ptr, len); fail() decomposes to (false, 0,   *)
(* 0).                                                                     *)
(***************************************************************************)
C24_RoundTrip ==
    op = "decompose" =>
        IF call.fn = "fail"
        THEN ret.decomposed = [success |-> FALSE, ptr |-> le_bytes(0, 4),
                               len |-> le_bytes(0, 4)]
        ELSE ret.decomposed = [success |-> call.success, ptr |-> call.ptr,
                               len |-> call.len]

\* The same for every len below MAX_ALLOC_LEN.
C24_RoundTripBelowMax ==
    (op = "decompose" /\ call.fn = "compose"
        /\ call.len # le_bytes(MAX_ALLOC_LEN, 4)) =>
        ret.decomposed = [success |-> call.success, ptr |-> call.ptr,
                          len |-> call.len]

\* compose accepts exactly the lengths up to MAX_ALLOC_LEN.
C24_AcceptsUpToMax ==
    op = "compose" /\ call.fn = "compose" =>
        (ret.composed.ok <=>
            \/ call.len[4] = 0
            \/ call.len = le_bytes(MAX_ALLOC_LEN, 4))

\* The largest pointer with the largest length that survives.
C24_BelowMaxWitness ==
    /\ op = "decompose"
    /\ call.fn = "compose"
    /\ call.ptr = <<255, 255, 255, 255>>
    /\ call.len = <<255, 255, 255, 0>>
    /\ ret.decomposed.len = call.len

(***************************************************************************)
(* compat::tx::get_history.  A transaction is its hash (id), the hashes of *)
(* its output notes, its nullifiers and the gas price of its fee; amounts  *)
(* are whole numbers of LUX until the final division by dusk(1.0), which   *)
(* is kept as the pair it divides.  An index out of the bounds of a vector *)
(* panics: the call aborts and returns nothing.                            *)
(***************************************************************************)
Dusk == 1000000000

Panic == Err("panic")

\* tx_data[index].txs decoded: hex::decode and Transaction::from_slice of
\* every raw_tx, None when one of them fails.
decode_txs(txs) ==
    IF \E i \in DOMAIN txs : ~from_bytes("Transaction", txs[i].raw_tx).some
    THEN None
    ELSE Some([i \in DOMAIN txs |->
                  <<from_bytes("Transaction", txs[i].raw_tx).val, txs[i].gas_spent>>])

\* txs.iter().find(|(t, _)| t.outputs().iter().any(|&n| n.hash().eq(&note_hash)))
note_creator(txs, note) ==
    LET found == {i \in DOMAIN txs : note_hash(note) \in txs[i][1].outputs}
    IN  IF found = {} THEN None
        ELSE Some(txs[CHOOSE i \in found : \A j \in found : i <= j])

\* nullifiers.clone().into_iter().find_map(|n| n.0.eq(input).then_some(n.1))
\* for every nullifier of the transaction, collected into a Result.
inputs_amount(t, nullifier_values) ==
    LET first(input) == CHOOSE i \in DOMAIN nullifier_values :
                            /\ nullifier_values[i][1] = input
                            /\ \A j \in 1..(i - 1) : nullifier_values[j][1] # input
        known == SelectSeq(t.nullifiers,
                           LAMBDA input : \E i \in DOMAIN nullifier_values :
                                              nullifier_values[i][1] = input)
        amounts == [k \in DOMAIN known |-> nullifier_values[first(known[k])][2]]
    IN  IF \E k \in DOMAIN amounts : ~amounts[k].ok THEN Err("Phoenix")
        ELSE Ok(SumSeq([k \in DOMAIN amounts |-> amounts[k].val]))

\* Mutant: every owned note of a transaction pushes an entry of its own.
find_never(found) == 0

\* ret.iter_mut().find(..): the first of the positions of the entries that
\* satisfy the test, 0 when there is none.
find(found) ==
    IF found = {} THEN 0 ELSE CHOOSE i \in found : \A j \in found : i <= j

\* ret.sort_by(|a, b| a.block_height.cmp(&b.block_height)), a stable sort.
RECURSIVE sort_by_block_height(_)
sort_by_block_height(entries) ==
    IF entries = <<>> THEN <<>>
    ELSE LET last == entries[Len(entries)]
             sorted == sort_by_block_height(SubSeq(entries, 1, Len(entries) - 1))
             k == Cardinality({i \in DOMAIN sorted :
                                  sorted[i].block_height <= last.block_height})
         IN  SubSeq(sorted, 1, k) \o <<last>> \o SubSeq(sorted, k + 1, Len(sorted))

\* The second loop of get_history from the note at `index` (0-based) on.
RECURSIVE history_loop(_, _, _, _, _, _)
history_loop(notes, tx_data, nullifier_values, vk, index, state) ==
    IF index = Len(notes) THEN Ok(state.ret)
    ELSE
    LET note_data == notes[index + 1]
        note == from_bytes("Note", note_data.note)
        height == note_data.block_height
        cached == height \in DOMAIN state.block_txs
    IN  IF ~note.some THEN fail
        ELSE IF ~cached /\ index >= Len(tx_data) THEN Panic
        ELSE
        LET decoded == IF cached THEN Some(state.block_txs[height])
                       ELSE decode_txs(tx_data[index + 1].txs)
        IN  IF ~decoded.some THEN fail
            ELSE
            LET txs == decoded.val
                block_txs == [h \in DOMAIN state.block_txs \cup {height} |->
                                 IF h = height THEN txs ELSE state.block_txs[h]]
                note_amount == note_value(note.val, vk)
                creator == note_creator(txs, note.val)
            IN  IF ~note_amount.ok THEN fail
                ELSE IF creator.some
                THEN LET t == creator.val[1]
                         gas_spent == creator.val[2]
                         spent == inputs_amount(t, nullifier_values)
                         at == find({i \in DOMAIN state.ret : state.ret[i].id = t.id})
                     IN  IF ~spent.ok THEN fail
                         ELSE history_loop(notes, tx_data, nullifier_values, vk, index + 1,
                                  [block_txs |-> block_txs,
                                   ret |-> IF at # 0
                                           THEN [state.ret EXCEPT ![at].amount =
                                                     @ + note_amount.val]
                                           ELSE Append(state.ret,
                                                    [direction |-> IF spent.val > 0
                                                                   THEN "Out" ELSE "In",
                                                     block_height |-> height,
                                                     amount |-> note_amount.val - spent.val,
                                                     fee |-> gas_spent * t.gas_price,
                                                     id |-> t.id])])
                ELSE LET at == find({i \in DOMAIN state.ret :
                                         /\ state.ret[i].direction = "Out"
                                         /\ state.ret[i].block_height = height})
                     IN  history_loop(notes, tx_data, nullifier_values, vk, index + 1,
                              [block_txs |-> block_txs,
                               ret |-> IF at # 0
                                       THEN [state.ret EXCEPT ![at].amount =
                                                 @ + note_amount.val]
                                       ELSE state.ret])

get_history(args) ==
    LET parsed == from_bytes("GetHistoryArgs", args)
    IN  IF ~parsed.some THEN fail
        ELSE
        LET a == parsed.val
            seed == sanitize_seed(a.seed)
        IN  IF ~seed.some THEN fail
            ELSE IF \E i \in DOMAIN a.notes :
                        \/ ~from_bytes("BlsScalar", a.notes[i].nullifier).some
                        \/ ~from_bytes("Note", a.notes[i].note).some
            THEN fail
            ELSE
            LET vk == derive_vk(seed.val, a.index)
                nullifier_values == [i \in DOMAIN a.notes |->
                                  <<from_bytes("BlsScalar", a.notes[i].nullifier).val,
                                    note_value(from_bytes("Note", a.notes[i].note).val, vk)>>]
                looped == history_loop(a.notes, a.tx_data, nullifier_values, vk, 0,
                                       [block_txs |-> <<>>, ret |-> <<>>])
            IN  IF ~looped.ok THEN looped
                ELSE into_ptr([history |->
                        LET sorted == sort_by_block_height(looped.val)
                        IN  [i \in DOMAIN sorted |->
                                [sorted[i] EXCEPT !.amount = <<@, Dusk>>]]])

(***************************************************************************)
(* The history specification: notes of the wallet with their block heights *)
(* and nullifiers and the transactions of their blocks are submitted and   *)
(* get_history runs.                                                       *)
(***************************************************************************)
MaxHistNotes == 3

HistNote(pos, seed, value, type) == FfiNote(pos, derive_ssk(seed, 0), value, type)

\* Three notes of key 0 of the seed and a note of another wallet.
HistNotes ==
    {HistNote(1, FfiSeed, 1, "NoteType::Obfuscated"),
     HistNote(2, FfiSeed, 2, "NoteType::Obfuscated"),
     HistNote(3, FfiSeed, 4, "NoteType::Transparent")}

ForeignNote == HistNote(4, "other", 1, "NoteType::Obfuscated")

\* Transaction A creates the notes 1 and 2 and spends nothing of the
\* wallet; transaction B spends note 1 and creates note 3.
TxA == [id |-> "A", outputs |-> {note_hash(n) : n \in {m \in HistNotes : m.note \in {1, 2}}},
        nullifiers |-> <<>>, gas_price |-> 1]

TxB == [id |-> "B", outputs |-> {note_hash(n) : n \in {m \in HistNotes : m.note = 3}},
        nullifiers |-> <<gen_nullifier(HistNote(1, FfiSeed, 1, "NoteType::Obfuscated"),
                                       derive_ssk(FfiSeed, 0))>>,
        gas_price |-> 3]

RawTx(tx) == [raw_tx |-> ArgsBytes("Transaction", tx), gas_spent |-> 2]

\* The transactions of a block, as the node reports them.
BlockTxs ==
    {<<>>, <<RawTx(TxA)>>, <<RawTx(TxB), RawTx(TxA)>>,
     <<[raw_tx |-> Garbage, gas_spent |-> 2]>>}

NoteInfo(note, height) ==
    [note |-> ArgsBytes("Note", note),
     nullifier |-> ScalarBytes(gen_nullifier(note, derive_ssk(FfiSeed, 0))),
     block_height |-> height]

NoteInfos ==
    {NoteInfo(n, h) : n \in HistNotes, h \in 1..2} \cup {NoteInfo(ForeignNote, 1)}

\* tx_data: for each of the first k notes the transactions of its block.
TxData(notes, blocks, k) ==
    [i \in 1..k |-> [block_height |-> notes[i].block_height,
                     txs |-> blocks[notes[i].block_height]]]

HistoryArgs(seed, notes, tx_data) ==
    ArgsBytes("GetHistoryArgs",
              [seed |-> seed, index |-> 0, notes |-> notes, tx_data |-> tx_data])

InitHistory ==
    /\ \/ \E notes \in SeqsUpTo(NoteInfos, MaxHistNotes),
             b1 \in BlockTxs, b2 \in BlockTxs :
              \E k \in 0..Len(notes) :
                  call = FfiCall("get_history",
                                 HistoryArgs(SeedBytes(FfiSeed), notes,
                                             TxData(notes, <<b1, b2>>, k)))
       \/ \E n \in {ArgsBytes("Note", ForeignNote), Garbage},
             nf \in {ScalarBytes(0), Garbage}, s \in {SeedBytes(FfiSeed), Garbage},
             k \in 0..1 :
              LET notes == <<[note |-> n, nullifier |-> nf, block_height |-> 1]>>
              IN  call = FfiCall("get_history",
                                 HistoryArgs(s, notes,
                                             TxData(notes, <<<<RawTx(TxA)>>, <<>>>>, k)))
       \/ call = FfiCall("get_history", Garbage)
    /\ op = "none"
    /\ ret = None

GetHistory ==
    /\ op = "none"
    /\ call.fn = "get_history"
    /\ op' = "get_history"
    /\ ret' = get_history(call.args)
    /\ UNCHANGED call

NextHistory == GetHistory

SpecHistory == InitHistory /\ [][NextHistory]_vars

\* The notes and the transaction data a call of get_history submits.
HistSubmitted == call.args.val.notes

HistTxData == call.args.val.tx_data

(***************************************************************************)
(* C25: get_history returns one of two results for every argument value,   *)
(* the history or the failure result, and never aborts; when tx_data has   *)
(* fewer entries than notes it returns the failure result.                 *)
(***************************************************************************)
C25_TwoStateResult ==
    op = "get_history" =>
        /\ ret = fail \/ ret.ok
        /\ (call.args # Garbage /\ Len(HistTxData) < Len(HistSubmitted)) => ret = fail

\* The same for calls whose tx_data has an entry for every note.
C25_TwoStateWithAllTxData ==
    (op = "get_history"
        /\ (call.args # Garbage => Len(HistTxData) >= Len(HistSubmitted))) =>
        ret = fail \/ ret.ok

\* A history of two entries from full transaction data.
C25_AllTxDataWitness ==
    /\ op = "get_history"
    /\ Len(HistTxData) = 3
    /\ ret.ok
    /\ Len(ret.val.history) = 2

\* The transactions of the block of the i-th submitted note, and the one
\* of them that created the note.
BlockOf(i) ==
    LET first == CHOOSE j \in DOMAIN HistTxData :
                     /\ HistTxData[j].block_height = HistSubmitted[i].block_height
                     /\ \A l \in 1..(j - 1) :
                            HistTxData[l].block_height # HistSubmitted[i].block_height
    IN  [l \in DOMAIN HistTxData[first].txs |-> HistTxData[first].txs[l].raw_tx.val]

CreatorsOf(i) ==
    SelectSeq(BlockOf(i), LAMBDA t : note_hash(HistSubmitted[i].note.val) \in t.outputs)

\* The positions of the submitted notes a transaction created.
CreatedBy(id) ==
    {i \in DOMAIN HistSubmitted : CreatorsOf(i) # <<>> /\ CreatorsOf(i)[1].id = id}

FirstCreated(id) == CHOOSE i \in CreatedBy(id) : \A j \in CreatedBy(id) : i <= j

\* What the submitted notes hold of the inputs of a transaction.
SpentBy(t) ==
    SumSeq([k \in DOMAIN t.nullifiers |->
               LET spent == {i \in DOMAIN HistSubmitted :
                                HistSubmitted[i].nullifier.val = t.nullifiers[k]}
               IN  IF spent = {} THEN 0
                   ELSE HistSubmitted[CHOOSE i \in spent : TRUE].note.val.value])

RECURSIVE SumAt(_, _)
SumAt(S, f) ==
    IF S = {} THEN 0
    ELSE LET x == CHOOSE y \in S : TRUE IN f[x] + SumAt(S \ {x}, f)

(***************************************************************************)
(* C26: in the history returned by get_history no two entries have the     *)
(* same transaction id: there is one entry for every transaction that      *)
(* created a submitted note, and when every note has its creator among the *)
(* transactions the amount of the entry is the sum of the values of all    *)
(* the notes the transaction created less the value of its inputs.  The    *)
(* entries are in non-decreasing order of block height, those of equal     *)
(* height in the order in which they were created.                         *)
(***************************************************************************)
C26_HistoryMergedAndSorted ==
    (op = "get_history" /\ ret.ok) =>
        LET history == ret.val.history
        IN  /\ \A i \in DOMAIN history : \A j \in DOMAIN history :
                   i < j =>
                       /\ history[i].id # history[j].id
                       /\ history[i].block_height <= history[j].block_height
                       /\ history[i].block_height = history[j].block_height =>
                              FirstCreated(history[i].id) < FirstCreated(history[j].id)
            /\ {history[i].id : i \in DOMAIN history} =
                   {CreatorsOf(i)[1].id : i \in {j \in DOMAIN HistSubmitted :
                                                   CreatorsOf(j) # <<>>}}
            /\ (\A i \in DOMAIN HistSubmitted : CreatorsOf(i) # <<>>) =>
                   \A i \in DOMAIN history :
                       history[i].amount =
                           <<SumAt(CreatedBy(history[i].id),
                                   [n \in DOMAIN HistSubmitted |->
                                       HistSubmitted[n].note.val.value])
                             - SpentBy(CreatorsOf(FirstCreated(history[i].id))[1]),
                             Dusk>>

\* Note 3 of transaction B in block 2, then the notes 1 and 2 of
\* transaction A in block 1: two entries, A with amount 3 before B.
C26_Witness ==
    /\ op = "get_history"
    /\ ret.ok
    /\ Len(HistSubmitted) = 3
    /\ HistSubmitted[1].block_height = 2
    /\ Len(ret.val.history) = 2
    /\ ret.val.history[1].id = "A"
    /\ ret.val.history[1].amount = <<3, Dusk>>
    /\ ret.val.history[2].id = "B"

\* Two entries of one block, B created before A.
C26_SameHeightWitness ==
    /\ op = "get_history"
    /\ ret.ok
    /\ Len(ret.val.history) = 2
    /\ ret.val.history[1].id = "B"
    /\ ret.val.history[1].block_height = ret.val.history[2].block_height

\* The notes and the openings a call of execute submits.
ExecSubmitted == call.val.inputs.val

ExecSubmittedOpenings == call.val.openings.val

ExecArgsParse ==
    /\ call.some
    /\ call.val.inputs # Garbage
    /\ call.val.openings # Garbage

\* Every input of the transaction carries the opening submitted at a
\* position of its note, and a call with fewer openings than notes fails.
PairedAsSubmitted ==
    /\ ret.some =>
           \A k \in DOMAIN ret.val.tx.inputs :
               \E i \in DOMAIN ExecSubmitted :
                   /\ i \in DOMAIN ExecSubmittedOpenings
                   /\ ExecSubmitted[i] = ret.val.tx.inputs[k].note
                   /\ ExecSubmittedOpenings[i] = ret.val.tx.inputs[k].opening
    /\ Len(ExecSubmittedOpenings) < Len(ExecSubmitted) => ~ret.some

(***************************************************************************)
(* C27: in the transaction of ffi::execute every input note carries the    *)
(* opening the caller supplied for it, the one at the position of the note *)
(* in the submitted list, whatever the order of the notes and also when a  *)
(* note is submitted twice; with fewer openings than notes the call fails. *)
(***************************************************************************)
C27_InputsKeepTheirOpenings ==
    (op = "execute" /\ ExecArgsParse) => PairedAsSubmitted

\* The same for notes submitted in the order of their hashes, none twice.
C27_SortedInputsKeepTheirOpenings ==
    (op = "execute" /\ ExecArgsParse
        /\ IsSanitizedSet(ExecSubmitted, Range(ExecSubmitted))) => PairedAsSubmitted

C27_SortedWitness ==
    /\ op = "execute"
    /\ ExecArgsParse
    /\ Len(ExecSubmitted) = 2
    /\ IsSanitizedSet(ExecSubmitted, Range(ExecSubmitted))
    /\ ret.some
    /\ Len(ret.val.tx.inputs) = 2

(***************************************************************************)
(* The loop of pick_lexicographic, step by step.  `ret` holds the index    *)
(* array, the arrays is_valid has been called with so far, and the value   *)
(* returned; is_valid is any predicate, so each call of it answers either  *)
(* way.                                                                    *)
(***************************************************************************)
MaxPickLen == 7

PickState(indices, tested, out) ==
    [indices |-> indices, tested |-> tested, out |-> out]

InitPick ==
    /\ \E max_len \in MAX_INPUT_NOTES..MaxPickLen :
           call = [fn |-> "pick_lexicographic", max_len |-> max_len]
    /\ op = "none"
    /\ ret = None

\* let mut indices = [0; MAX_INPUT_NOTES]; .. *index = i
PickStart ==
    /\ op = "none"
    /\ op' = "loop"
    /\ ret' = PickState(InitialIndices, <<>>, None)
    /\ UNCHANGED call

\* if is_valid(&indices) { return Some(indices); }
PickTest ==
    /\ op = "loop"
    /\ \E valid \in BOOLEAN :
           /\ op' = IF valid THEN "returned" ELSE "advance"
           /\ ret' = PickState(ret.indices, Append(ret.tested, ret.indices),
                               IF valid THEN Some(ret.indices) ELSE None)
    /\ UNCHANGED call

\* The rest of the loop body: the scan back, the increment and the break.
PickAdvance ==
    /\ op = "advance"
    /\ LET next == NextIndices(ret.indices, call.max_len)
       IN  /\ op' = IF next[MAX_INPUT_NOTES - 1] = call.max_len
                    THEN "returned" ELSE "loop"
           /\ ret' = PickState(next, ret.tested, None)
    /\ UNCHANGED call

NextPick == PickStart \/ PickTest \/ PickAdvance

\* The loop runs to its end: no step of it waits for anything.
SpecPick == InitPick /\ [][NextPick]_vars /\ WF_vars(NextPick)

\* The last combination, [max_len - 4, .., max_len - 1].
LastCombination(max_len) ==
    [k \in 0..(MAX_INPUT_NOTES - 1) |-> max_len - MAX_INPUT_NOTES + k]

\* The calls of is_valid so far are the first combinations of the
\* lexicographic order, none left out and none repeated; each has strictly
\* increasing indices below max_len.
TestedInOrder ==
    LET tested == ret.tested
        all == Combinations(call.max_len)
    IN  /\ \A k \in DOMAIN tested :
               /\ tested[k] \in all
               /\ \A j \in 0..(MAX_INPUT_NOTES - 1) :
                      /\ tested[k][j] < call.max_len
                      /\ j > 0 => tested[k][j - 1] < tested[k][j]
               /\ Cardinality({c \in all : LexLess(c, tested[k])}) = k - 1

\* None is returned only when every combination has been tested, the last
\* one last.
NoneAfterLast ==
    (op = "returned" /\ ~ret.out.some) =>
        /\ Len(ret.tested) = Cardinality(Combinations(call.max_len))
        /\ ret.tested[Len(ret.tested)] = LastCombination(call.max_len)

(***************************************************************************)
(* C28: for every max_len >= 4 and every predicate pick_lexicographic      *)
(* terminates; it calls is_valid on each of the C(max_len, 4) combinations *)
(* at most once, in strictly increasing lexicographic order, always with   *)
(* strictly increasing indices below max_len, and returns None only after  *)
(* the last combination has been tested.                                   *)
(***************************************************************************)
C28_TerminatesInOrder ==
    /\ [](op # "none" => (TestedInOrder /\ NoneAfterLast))
    /\ <>(op = "returned")

\* None returned for the largest max_len, after all combinations.
C28_Witness ==
    /\ op = "returned"
    /\ call.max_len = MaxPickLen
    /\ ~ret.out.some
    /\ Len(ret.tested) > 5

(***************************************************************************)
(* The u64 arithmetic of the selection: the closure of pick_notes, the     *)
(* accumulated value of Wallet::inputs_and_change_output and the target of *)
(* Wallet::transfer.  Numbers are byte sequences, least significant first; *)
(* a mathematical value has WideLen bytes, enough for every sum and        *)
(* product here.  `+`, `*` and Iterator::sum on u64 panic on overflow in a *)
(* build with overflow checks and wrap modulo 2^64 in a build without:     *)
(* overflow_checks is the build's choice.                                  *)
(***************************************************************************)
WideLen == 17

Wide(bytes) == [i \in 1..WideLen |-> IF i \in DOMAIN bytes THEN bytes[i] ELSE 0]

RECURSIVE add_from(_, _, _, _)
add_from(a, b, i, carry) ==
    IF i > WideLen THEN <<>>
    ELSE <<(a[i] + b[i] + carry) % 256>>
         \o add_from(a, b, i + 1, (a[i] + b[i] + carry) \div 256)

\* a + b of two mathematical values.
add(a, b) == add_from(a, b, 1, 0)

RECURSIVE scale_from(_, _, _, _)
scale_from(a, d, i, carry) ==
    IF i > WideLen THEN <<>>
    ELSE <<(a[i] * d + carry) % 256>>
         \o scale_from(a, d, i + 1, (a[i] * d + carry) \div 256)

RECURSIVE mul_from(_, _, _)
mul_from(a, b, i) ==
    IF i > Len(a) THEN Wide(<<>>)
    ELSE add([k \in 1..WideLen |->
                 IF k >= i THEN scale_from(b, a[i], 1, 0)[k - i + 1] ELSE 0],
             mul_from(a, b, i + 1))

\* a * b of two u64.
mul(a, b) == mul_from(a, Wide(b), 1)

\* The result of a u64 operation whose mathematical value is `exact`.
u64_result(exact, overflow_checks) ==
    IF \E i \in 9..WideLen : exact[i] # 0
    THEN IF overflow_checks THEN Panic ELSE Ok(SubSeq(exact, 1, 8))
    ELSE Ok(SubSeq(exact, 1, 8))

u64_add(a, b, overflow_checks) == u64_result(add(Wide(a), Wide(b)), overflow_checks)

u64_mul(a, b, overflow_checks) == u64_result(mul(a, b), overflow_checks)

\* values.iter().sum::<u64>(), from the running sum `acc` on.
RECURSIVE u64_sum(_, _, _)
u64_sum(acc, values, overflow_checks) ==
    IF values = <<>> THEN Ok(acc)
    ELSE LET next == u64_add(acc, Head(values), overflow_checks)
         IN  IF ~next.ok THEN next
             ELSE u64_sum(next.val, Tail(values), overflow_checks)

U64Zero == [i \in 1..8 |-> 0]

\* The closure of pick_notes: the sum of the values at the four indices
\* is >= value.
pick_notes_is_valid(values, value, overflow_checks) ==
    LET sum == u64_sum(U64Zero, values, overflow_checks)
    IN  IF ~sum.ok THEN sum ELSE Ok(le_unsigned(value, sum.val))

\* inputs_and_change_output: accumulated_value += val for every note, and
\* the test accumulated_value < value.
accumulated_value(values, value, overflow_checks) ==
    LET sum == u64_sum(U64Zero, values, overflow_checks)
    IN  IF ~sum.ok THEN sum
        ELSE Ok([accumulated_value |-> sum.val,
                 not_enough_balance |-> ~le_unsigned(value, sum.val)])

\* transfer: value + gas_limit * gas_price
transfer_target(value, gas_limit, gas_price, overflow_checks) ==
    LET product == u64_mul(gas_limit, gas_price, overflow_checks)
    IN  IF ~product.ok THEN product
        ELSE u64_add(value, product.val, overflow_checks)

(***************************************************************************)
(* The arithmetic specification: values of the whole u64 range are drawn   *)
(* and one of the three computations runs.                                 *)
(***************************************************************************)
MaxArithNotes == 3

\* 0, 1, 3, 2^32, 2^63 and 2^64 - 1.
U64Values ==
    {U64Zero, le_bytes(1, 8), le_bytes(3, 8), <<0, 0, 0, 0, 1, 0, 0, 0>>,
     <<0, 0, 0, 0, 0, 0, 0, 128>>, [i \in 1..8 |-> 255]}

U64Targets ==
    {U64Zero, le_bytes(3, 8), <<0, 0, 0, 0, 0, 0, 0, 128>>, [i \in 1..8 |-> 255]}

InitArith ==
    /\ \E checks \in BOOLEAN :
           \/ \E values \in [1..MAX_INPUT_NOTES -> U64Values], value \in U64Targets :
                  call = [fn |-> "pick_notes", values |-> values, value |-> value,
                          overflow_checks |-> checks]
           \/ \E values \in SeqsUpTo(U64Values, MaxArithNotes), value \in U64Targets :
                  call = [fn |-> "inputs_and_change_output", values |-> values,
                          value |-> value, overflow_checks |-> checks]
           \/ \E value \in U64Values, gas_limit \in U64Values, gas_price \in U64Values :
                  call = [fn |-> "transfer", value |-> value, gas_limit |-> gas_limit,
                          gas_price |-> gas_price, overflow_checks |-> checks]
    /\ op = "none"
    /\ ret = None

PickNotesIsValid ==
    /\ op = "none"
    /\ call.fn = "pick_notes"
    /\ op' = "is_valid"
    /\ ret' = pick_notes_is_valid(call.values, call.value, call.overflow_checks)
    /\ UNCHANGED call

AccumulatedValue ==
    /\ op = "none"
    /\ call.fn = "inputs_and_change_output"
    /\ op' = "accumulated_value"
    /\ ret' = accumulated_value(call.values, call.value, call.overflow_checks)
    /\ UNCHANGED call

TransferTarget ==
    /\ op = "none"
    /\ call.fn = "transfer"
    /\ op' = "transfer_target"
    /\ ret' = transfer_target(call.value, call.gas_limit, call.gas_price,
                              call.overflow_checks)
    /\ UNCHANGED call

NextArith == PickNotesIsValid \/ AccumulatedValue \/ TransferTarget

SpecArith == InitArith /\ [][NextArith]_vars

\* The mathematical sum of a list of values, and a <= b of two
\* mathematical values.
RECURSIVE ExactSum(_)
ExactSum(values) ==
    IF values = <<>> THEN Wide(<<>>) ELSE add(Wide(Head(values)), ExactSum(Tail(values)))

ExactTarget == add(Wide(call.value), mul(call.gas_limit, call.gas_price))

\* Every result equals its mathematical value.
ArithExact ==
    /\ op = "is_valid" =>
           /\ ret.ok
           /\ ret.val <=> le_unsigned(Wide(call.value), ExactSum(call.values))
    /\ op = "accumulated_value" =>
           /\ ret.ok
           /\ Wide(ret.val.accumulated_value) = ExactSum(call.values)
           /\ ret.val.not_enough_balance <=>
                  ~le_unsigned(Wide(call.value), ExactSum(call.values))
    /\ op = "transfer_target" =>
           /\ ret.ok
           /\ Wide(ret.val) = ExactTarget

\* The mathematical values of the call are below 2^64.
FitsU64(exact) == \A i \in 9..WideLen : exact[i] = 0

NoOverflow ==
    IF call.fn = "transfer"
    THEN FitsU64(mul(call.gas_limit, call.gas_price)) /\ FitsU64(ExactTarget)
    ELSE FitsU64(ExactSum(call.values))

(***************************************************************************)
(* C29: the selection arithmetic is exact over the whole u64 range: the    *)
(* closure of pick_notes accepts four values iff their mathematical sum is *)
(* >= target, and the accumulated value of inputs_and_change_output and    *)
(* the target value + gas_limit * gas_price of transfer equal their        *)
(* mathematical values; nothing wraps modulo 2^64.                         *)
(***************************************************************************)
C29_ExactOverU64 == ArithExact

\* The same for the calls whose mathematical values are below 2^64.
C29_ExactWithoutOverflow == NoOverflow => ArithExact

\* The target 2^63 + 2^32 * 3, which is below 2^64.
C29_NoOverflowWitness ==
    /\ op = "transfer_target"
    /\ call.gas_limit = <<0, 0, 0, 0, 1, 0, 0, 0>>
    /\ call.gas_price = le_bytes(3, 8)
    /\ call.value = <<0, 0, 0, 0, 0, 0, 0, 128>>
    /\ ret = Ok(<<0, 0, 0, 0, 3, 0, 0, 128>>)

(***************************************************************************)
(* The key loop of ffi::balance, ffi::nullifiers and execute::inner, step  *)
(* by step.  `ret` holds the position of the note in hand, idx, the arrays *)
(* keys and keys_ssk (zeroed at first), keys_len, the indices derived so   *)
(* far in the order of their derivation, and the slots the last test read. *)
(***************************************************************************)
MaxKeyNotes == 2

\* mem::zeroed()
Zeroed == [zeroed |-> TRUE]

\* Mutant: a key is derived for the first index only.
needs_derive_first(keys_len, idx) == keys_len = 0

\* if keys_len == idx
needs_derive(keys_len, idx) == keys_len = idx

\* The test that ends the search for the key of a note.
key_test(fn, key, note) ==
    IF fn = "nullifiers" THEN owns(key, note) ELSE note_value(note, key).ok

KeyLoop(notes, note, idx, keys, keys_ssk, keys_len, derived, read, out) ==
    [notes |-> notes, note |-> note, idx |-> idx, keys |-> keys,
     keys_ssk |-> keys_ssk, keys_len |-> keys_len, derived |-> derived,
     read |-> read, out |-> out]

InitKeys ==
    /\ \E fn \in {"balance", "nullifiers", "execute"},
          notes \in SeqsUpTo(FfiNotes, MaxKeyNotes) :
           call = [fn |-> fn, seed |-> FfiSeed, notes |-> notes]
    /\ op = "none"
    /\ ret = None

\* The arrays are zeroed and the loop over the notes begins; balance and
\* execute sanitize the notes first.
KeysStart ==
    /\ op = "none"
    /\ LET notes == IF call.fn = "nullifiers" THEN call.notes
                    ELSE sanitize_notes(call.notes)
       IN  /\ op' = IF notes = <<>> THEN "returned" ELSE "check"
           /\ ret' = KeyLoop(notes, 1, 0,
                             [i \in 0..MAX_KEY |-> Zeroed],
                             [i \in 0..MAX_KEY |-> Zeroed],
                             0, <<>>, None,
                             IF notes = <<>> THEN Some(TRUE) ELSE None)
    /\ UNCHANGED call

\* keys_ssk[idx] = derive_ssk(&seed, idx); keys[idx] = ..; keys_len += 1
KeysDerive ==
    /\ op = "check"
    /\ needs_derive(ret.keys_len, ret.idx)
    /\ op' = "test"
    /\ ret' = [ret EXCEPT
                  !.keys[ret.idx] = derive_vk(call.seed, ret.idx),
                  !.keys_ssk[ret.idx] = IF call.fn = "balance" THEN Zeroed
                                        ELSE derive_ssk(call.seed, ret.idx),
                  !.keys_len = @ + 1,
                  !.derived = Append(@, ret.idx)]
    /\ UNCHANGED call

\* The slot is taken as derived.
KeysCached ==
    /\ op = "check"
    /\ ~needs_derive(ret.keys_len, ret.idx)
    /\ op' = "test"
    /\ UNCHANGED <<call, ret>>

\* keys[idx] is read for the test; on success keys_ssk[idx] is the key of
\* the note (nullifiers: at once, execute: for the transaction) and the
\* loop goes to the next note, otherwise to the next index; the call fails
\* after the last index.
KeysTest ==
    /\ op = "test"
    /\ LET note == ret.notes[ret.note]
           passed == key_test(call.fn, ret.keys[ret.idx], note)
           last_note == ret.note = Len(ret.notes)
       IN  /\ op' = IF (passed /\ last_note) \/ (~passed /\ ret.idx = MAX_KEY)
                    THEN "returned" ELSE "check"
           /\ ret' = [ret EXCEPT
                         !.read = Some([idx |-> ret.idx,
                                        key |-> ret.keys[ret.idx],
                                        ssk |-> IF passed /\ call.fn # "balance"
                                                THEN Some(ret.keys_ssk[ret.idx])
                                                ELSE None]),
                         !.note = IF passed /\ ~last_note THEN @ + 1 ELSE @,
                         !.idx = IF passed THEN 0
                                 ELSE IF ret.idx = MAX_KEY THEN @ ELSE @ + 1,
                         !.out = IF passed /\ last_note THEN Some(TRUE)
                                 ELSE IF ~passed /\ ret.idx = MAX_KEY THEN Some(FALSE)
                                 ELSE None]
    /\ UNCHANGED call

NextKeys == KeysStart \/ KeysDerive \/ KeysCached \/ KeysTest

SpecKeys == InitKeys /\ [][NextKeys]_vars

(***************************************************************************)
(* C30: in the key loops of ffi::balance, ffi::nullifiers and ffi::execute *)
(* every slot read, keys[idx] or keys_ssk[idx], has been derived before    *)
(* (idx < keys_len) and holds the key of (seed, idx), never the zeroed     *)
(* value; keys[i] is the key of (seed, i) for every i < keys_len; keys_len *)
(* never exceeds MAX_KEY + 1; and every index is derived at most once in a *)
(* call, whatever the number and order of the notes.                       *)
(***************************************************************************)
C30_KeysDerivedBeforeUse ==
    op \in {"check", "test", "returned"} =>
        /\ ret.keys_len <= MAX_KEY + 1
        /\ ret.idx <= ret.keys_len
        /\ op = "test" => ret.idx < ret.keys_len
        /\ \A i \in 0..MAX_KEY :
               i < ret.keys_len => ret.keys[i] = view_key(derive_sk(call.seed, i))
        /\ ret.derived = [k \in 1..ret.keys_len |-> k - 1]
        /\ ret.read.some =>
               /\ ret.read.val.key = view_key(derive_sk(call.seed, ret.read.val.idx))
               /\ ret.read.val.key # Zeroed
               /\ ret.read.val.ssk.some =>
                      ret.read.val.ssk.val = derive_sk(call.seed, ret.read.val.idx)

\* A note of the last key, then a note of the first: every key has been
\* derived for the first note and none is derived for the second.
C30_Witness ==
    /\ op = "returned"
    /\ call.fn = "nullifiers"
    /\ Len(ret.notes) = 2
    /\ ret.out = Some(TRUE)
    /\ ret.keys_len = MAX_KEY + 1
    /\ ret.read.val.idx = 0
    /\ ret.read.val.ssk = Some(derive_sk(call.seed, 0))

=============================================================================
